---------------------------- MODULE Spec2Model ----------------------------
(***************************************************************************)
(* Voice pipeline of the memory-avatar application.                        *)
(*                                                                         *)
(*   SpecBatch    src/components/LiveSession.tsx  turn-based session       *)
(*   SpecDuplex   src/unnamed/part_000            streaming session        *)
(*   SpecSession  either of the two sessions                               *)
(*   SpecChat     src/components/AvatarChat.tsx with the response          *)
(*                generator of src/services/geminiService.ts or of         *)
(*                src/unnamed/part_007                                     *)
(*                                                                         *)
(* Time is in milliseconds.  A timer callback runs at its due time: the    *)
(* clock does not pass a pending timer.  Network calls take any time.      *)
(* Frame energy (RMS) is in thousandths, so 0.02 is 20.                    *)
(***************************************************************************)
EXTENDS Integers, Sequences, FiniteSets, TLC

(* ------------------------------ bounds -------------------------------- *)
MaxTime == 8400
MaxTurns == 2
MaxSegments == 2
MaxClock == 2
MaxTranscript == 2
MaxSubmits == 4
MaxRetries == 3
MaxFrames == 2
MaxLipTurns == 1

(* ------------------------- program constants -------------------------- *)
VAD_THRESHOLD == 20
SILENCE_DURATION == 2000
CONFIRM_DELAY == 100
FINALIZE_WAIT == 100
MIN_BLOB_SIZE == 10000
RATE_LIMIT_COOLDOWN == 3000
LIP_SYNC_THRESHOLD == 10
HISTORY_WINDOW == 6

(* ------------------------------ inputs -------------------------------- *)
NoTime == 0 - 1
Deltas == {2000}
RmsValues == {0, 20, 21}
RequestDataSizes == {9999}
StopDataSizes == {0, 1}
Transcripts == { <<>>, <<" ", "a">>, <<"a", "b">> }
Replies == { <<"o", "k">> }
Failures == {"429", "other"}
Energies == {0, 10, 11}
TurnIds == 1..MaxTurns
RecorderIds == 1..(MaxTurns + 1)
SegIds == 1..MaxSegments
Durations == {1, 2}
NoMessage == [interrupted |-> FALSE, text |-> <<>>, turnComplete |-> FALSE,
              audio |-> 0]
Messages ==
  { [NoMessage EXCEPT !.interrupted = TRUE],
    [NoMessage EXCEPT !.interrupted = TRUE, !.audio = 1,
                      !.text = <<"a">>, !.turnComplete = TRUE],
    [NoMessage EXCEPT !.audio = 1],
    [NoMessage EXCEPT !.audio = 2],
    [NoMessage EXCEPT !.text = <<"a">>],
    [NoMessage EXCEPT !.text = <<" ">>],
    [NoMessage EXCEPT !.turnComplete = TRUE],
    [NoMessage EXCEPT !.text = <<"b">>, !.turnComplete = TRUE] }
UserTexts == { <<"h", "i">> }
ServiceVersions == {"services/geminiService.ts", "unnamed/part_007"}

(* ------------------------------ helpers ------------------------------- *)
Max(a, b) == IF a >= b THEN a ELSE b

RECURSIVE TrimStart(_)
TrimStart(s) == IF s # <<>> /\ Head(s) = " " THEN TrimStart(Tail(s)) ELSE s

RECURSIVE TrimEnd(_)
TrimEnd(s) ==
  IF s # <<>> /\ s[Len(s)] = " " THEN TrimEnd(SubSeq(s, 1, Len(s) - 1)) ELSE s

Trim(s) == TrimEnd(TrimStart(s))

RECURSIVE BlobSize(_)
BlobSize(chunks) ==
  IF chunks = <<>> THEN 0 ELSE Head(chunks).size + BlobSize(Tail(chunks))

VARIABLES
  now,                 \* Date.now()
  sessionPc,           \* position of startSession
  micActive, status, isTalking, isProcessing, history, error,   \* useState
  streamRef, mediaRecorderRef, audioChunksRef,
  lastSpeechTimeRef, isUserSpeakingRef, silenceTimerRef,
  currentSourceRef,
  silenceTimerDue,     \* due time of the pending silence timer, or NoTime
  recState,            \* state of each MediaRecorder created so far
  pendingData,         \* dataavailable events queued and not yet delivered
  srcState,            \* state of each AudioBufferSourceNode created so far
  turns,               \* one processUserSpeech invocation per finalized turn
  nTurns,              \* number of processUserSpeech invocations so far
  closureMicActive, closureIsProcessing, closureHistory,
  elevenConfigured,    \* profile.elevenLabsApiKey && profile.elevenLabsVoiceId
  hasVideo,            \* profile.videoUrl: the <video> element is rendered
  devices,             \* the microphone track, the audio callbacks, unmounted
  obs,                 \* observations of the run, read only by the properties
  \* ---- streaming session (src/unnamed/part_000) ----
  liveConn,            \* the connection made by ai.live.connect
  liveStatus, liveError, isAiSpeaking,                           \* useState
  useCustomVoice,      \* !!(profile.elevenLabsVoiceId)
  nextStartTimeRef, audioSourcesRef, currentTranscriptRef,
  outputClock,         \* outputContextRef.current.currentTime
  segs,                \* the AudioBufferSourceNodes pending, scheduled or stopped
  liveObs,             \* observations of the run, read only by the properties
  liveMic,             \* position of startMicrophone
  sentFrames,          \* energies of the frames sent by sendRealtimeInput
  \* ---- text chat (AvatarChat) and the response generator ----
  messages, chatIsProcessing,                                    \* useState
  chatPc,              \* position of handleSubmit
  serviceVersion,      \* which generateAvatarResponse is linked
  lastRequest,         \* the history carried by the latest generator call
  nSubmits,            \* number of handleSubmit calls so far
  chatVoice,           \* !!(profile.elevenLabsVoiceId) of the chat's profile
  chatAudio,           \* provider calls and playbacks for the latest reply
  recording,           \* the chat's voice recording and the render it closed over
  \* ---- one network call of the services (geminiService, elevenLabsService) ----
  call,                \* the exported function called and the file it is in
  callPc,              \* position inside the call
  retries, delay,      \* the parameters of the running retry helper invocation
  callLog              \* what the call has done so far

batchVars ==
  << now, sessionPc, micActive, status, isTalking, isProcessing, history, error,
     streamRef, mediaRecorderRef, audioChunksRef, lastSpeechTimeRef,
     isUserSpeakingRef, silenceTimerRef, currentSourceRef, silenceTimerDue,
     recState, pendingData, srcState, turns, nTurns, closureMicActive,
     closureIsProcessing, closureHistory, elevenConfigured, hasVideo, obs,
     devices >>

liveVars ==
  << liveConn, liveStatus, liveError, useCustomVoice, isAiSpeaking,
     nextStartTimeRef, audioSourcesRef, currentTranscriptRef, outputClock,
     segs, liveObs, liveMic, sentFrames >>

chatVars ==
  << messages, chatIsProcessing, chatPc, serviceVersion, lastRequest,
     nSubmits, chatVoice, chatAudio, recording >>

callVars == << call, callPc, retries, delay, callLog >>

notBatchVars == << liveVars, chatVars, callVars >>
notLiveVars == << batchVars, chatVars, callVars >>
notChatVars == << batchVars, liveVars, callVars >>
notCallVars == << batchVars, liveVars, chatVars >>

vars == << batchVars, liveVars, chatVars, callVars >>

IdleTurn == [pc |-> "idle", due |-> NoTime, blob |-> 0, text |-> <<>>,
             stt |-> 0, gen |-> 0, tts |-> 0, loudAt |-> NoTime,
             eleven |-> 0, gemini |-> 0, voice |-> "none", err |-> "none"]

(* lastLoud: time of the last frame above the threshold; lateQuiet: time   *)
(* of the first later frame at or below it that came more than             *)
(* SILENCE_DURATION after lastLoud; confirms: timer-driven calls of        *)
(* processUserSpeech since lastLoud; loudSinceTurn: a frame above the      *)
(* threshold was seen since the session started or a turn was finalized.   *)
InitObs == [lastLoud |-> NoTime, lateQuiet |-> NoTime, confirms |-> 0,
            totalConfirms |-> 0, everLoud |-> FALSE, loudSinceTurn |-> FALSE,
            bargedIn |-> FALSE]

InitIsUserSpeakingTrue == TRUE

InitIsUserSpeaking == FALSE

InitBatchWith(pc, premium, video) ==
  /\ now = 0
  /\ sessionPc = pc
  /\ micActive = TRUE
  /\ status = "Initializing..."
  /\ isTalking = FALSE
  /\ isProcessing = FALSE
  /\ history = <<>>
  /\ error = "null"
  /\ streamRef = FALSE
  /\ mediaRecorderRef = 0
  /\ audioChunksRef = <<>>
  /\ lastSpeechTimeRef = 0
  /\ isUserSpeakingRef = InitIsUserSpeaking
  /\ silenceTimerRef = FALSE
  /\ currentSourceRef = 0
  /\ silenceTimerDue = NoTime
  /\ recState = [r \in RecorderIds |-> "none"]
  /\ pendingData = <<>>
  /\ srcState = [s \in TurnIds |-> "none"]
  /\ turns = [t \in TurnIds |-> IdleTurn]
  /\ nTurns = 0
  /\ closureMicActive = TRUE
  /\ closureIsProcessing = FALSE
  /\ closureHistory = <<>>
  /\ elevenConfigured = premium
  /\ hasVideo = video
  /\ obs = InitObs
  /\ devices = [track |-> "none", processor |-> FALSE, raf |-> FALSE,
                unmounted |-> FALSE]

InitBatch(pc, premium) == InitBatchWith(pc, premium, TRUE)

(* ===================== batch session: LiveSession.tsx ================== *)

(* source.stop() of a node that is no longer playing may throw (it did in  *)
(* older engines); a playing node is stopped and its onended is queued.    *)
SourceStopThrows(st) == st # "playing"

SourceStop(srcs, s) ==
  IF srcs[s] = "playing" THEN [srcs EXCEPT ![s] = "stopped"] ELSE srcs

(* stopAudioPlayback without `currentSourceRef.current = null`.            *)
stopAudioPlaybackKeepsRef(cur, srcs) ==
  [ currentSourceRef |-> cur,
    srcState |-> IF cur # 0 THEN SourceStop(srcs, cur) ELSE srcs,
    isTalking |-> FALSE,
    raised |-> FALSE ]

(* stopAudioPlayback: the try/catch swallows whatever stop() throws.       *)
stopAudioPlayback(cur, srcs) ==
  [ currentSourceRef |-> 0,
    srcState |-> IF cur # 0 THEN SourceStop(srcs, cur) ELSE srcs,
    isTalking |-> FALSE,
    raised |-> FALSE ]

(* playAudioBuffer without the call of stopAudioPlayback.                  *)
playAudioBufferNoStop(cur, srcs, t) ==
  [ currentSourceRef |-> t,
    srcState |-> [srcs EXCEPT ![t] = "playing"],
    isTalking |-> isTalking ]

(* playAudioBuffer(buffer) for the reply of turn t; source t is created.   *)
playAudioBuffer(cur, srcs, t) ==
  LET st == stopAudioPlayback(cur, srcs)
  IN  [ currentSourceRef |-> t,
        srcState |-> [st.srcState EXCEPT ![t] = "playing"],
        isTalking |-> st.isTalking ]

(* startRecordingChunk creating recorder r.                                *)
startRecordingChunk(r) ==
  IF ~streamRef
  THEN UNCHANGED << mediaRecorderRef, audioChunksRef, recState >>
  ELSE /\ mediaRecorderRef' = r
       /\ audioChunksRef' = <<>>
       /\ recState' = [recState EXCEPT ![r] = IF devices.track = "live"
                                              THEN "recording"
                                              ELSE "inactive"]

TimerPending(due) == due # NoTime

PendingDues ==
  ({silenceTimerDue} \cup {turns[k].due : k \in TurnIds}) \ {NoTime}

NoTimerBefore(t) == \A due \in PendingDues : due >= t

(* The clock reaches the next pending timer.                               *)
AdvanceToTimer ==
  /\ PendingDues # {}
  /\ \E due \in PendingDues :
       /\ due > now
       /\ NoTimerBefore(due)
       /\ now' = due
  /\ UNCHANGED << sessionPc, micActive, status, isTalking, isProcessing,
                  history, error, streamRef, mediaRecorderRef, audioChunksRef,
                  lastSpeechTimeRef, isUserSpeakingRef, silenceTimerRef,
                  currentSourceRef, silenceTimerDue, recState, pendingData,
                  srcState, turns, nTurns, closureMicActive,
                  closureIsProcessing, closureHistory, devices, elevenConfigured,
                  hasVideo, obs,
                  notBatchVars >>

Advance(d) ==
  /\ now + d <= MaxTime
  /\ NoTimerBefore(now + d)
  /\ now' = now + d
  /\ UNCHANGED << sessionPc, micActive, status, isTalking, isProcessing,
                  history, error, streamRef, mediaRecorderRef, audioChunksRef,
                  lastSpeechTimeRef, isUserSpeakingRef, silenceTimerRef,
                  currentSourceRef, silenceTimerDue, recState, pendingData,
                  srcState, turns, nTurns, closureMicActive,
                  closureIsProcessing, closureHistory, devices, elevenConfigured,
                  hasVideo, obs,
                  notBatchVars >>

StartSession ==
  /\ sessionPc = "mounted"
  /\ sessionPc' = "awaitMic"
  /\ status' = "Accessing microphone..."
  /\ UNCHANGED << now, micActive, isTalking, isProcessing, history, error,
                  streamRef, mediaRecorderRef, audioChunksRef,
                  lastSpeechTimeRef, isUserSpeakingRef, silenceTimerRef,
                  currentSourceRef, silenceTimerDue, recState, pendingData,
                  srcState, turns, nTurns, closureMicActive,
                  closureIsProcessing, closureHistory, devices, elevenConfigured,
                  hasVideo, obs,
                  notBatchVars >>

GetUserMediaResolves ==
  /\ sessionPc = "awaitMic"
  /\ sessionPc' = "running"
  /\ streamRef' = TRUE
  /\ mediaRecorderRef' = 1
  /\ audioChunksRef' = <<>>
  /\ recState' = [recState EXCEPT ![1] = "recording"]
  /\ devices' = [devices EXCEPT !.track = "live", !.processor = TRUE,
                                !.raf = TRUE]
  /\ status' = "Listening..."
  /\ UNCHANGED << now, micActive, isTalking, isProcessing, history, error,
                  lastSpeechTimeRef, isUserSpeakingRef, silenceTimerRef,
                  currentSourceRef, silenceTimerDue, pendingData, srcState,
                  turns, nTurns, closureMicActive, closureIsProcessing,
                  closureHistory, elevenConfigured, hasVideo, obs,
                  notBatchVars >>

GetUserMediaRejects ==
  /\ sessionPc = "awaitMic"
  /\ sessionPc' = "failed"
  /\ error' = "Could not access microphone."
  /\ status' = "Error"
  /\ UNCHANGED << now, micActive, isTalking, isProcessing, history, streamRef,
                  mediaRecorderRef, audioChunksRef, lastSpeechTimeRef,
                  isUserSpeakingRef, silenceTimerRef, currentSourceRef,
                  silenceTimerDue, recState, pendingData, srcState, turns,
                  nTurns, closureMicActive, closureIsProcessing,
                  closureHistory, devices, elevenConfigured, hasVideo, obs,
                  notBatchVars >>

(* cleanup(), run when the component unmounts.  It ends what exists at     *)
(* that moment: the recorder, the tracks of the stream, the contexts with  *)
(* the processor, the current source, the animation frame and the silence  *)
(* timer.  It sets no flag that a later continuation could test.           *)
Cleanup ==
  /\ sessionPc \in {"awaitMic", "running", "failed"}
  /\ ~devices.unmounted
  /\ IF mediaRecorderRef # 0 /\ recState[mediaRecorderRef] = "recording"
     THEN \E s2 \in StopDataSizes :
            /\ recState' = [recState EXCEPT ![mediaRecorderRef] = "inactive"]
            /\ pendingData' = Append(pendingData,
                                     [rec |-> mediaRecorderRef, size |-> s2])
     ELSE UNCHANGED << recState, pendingData >>
  /\ devices' = [track |-> IF streamRef THEN "stopped" ELSE devices.track,
                 processor |-> FALSE, raf |-> FALSE, unmounted |-> TRUE]
  /\ srcState' = IF currentSourceRef # 0
                 THEN SourceStop(srcState, currentSourceRef)
                 ELSE srcState
  /\ silenceTimerDue' = NoTime
  /\ UNCHANGED << now, sessionPc, micActive, status, isTalking, isProcessing,
                  history, error, streamRef, mediaRecorderRef, audioChunksRef,
                  lastSpeechTimeRef, isUserSpeakingRef, silenceTimerRef,
                  currentSourceRef, turns, nTurns, closureMicActive,
                  closureIsProcessing, closureHistory, elevenConfigured,
                  hasVideo, obs,
                  notBatchVars >>

(* The mute button: a state update and a re-render.  The audio callback    *)
(* installed by setupVAD keeps the values it closed over.                  *)
ToggleMic ==
  /\ micActive' = ~micActive
  /\ UNCHANGED << now, sessionPc, status, isTalking, isProcessing, history,
                  error, streamRef, mediaRecorderRef, audioChunksRef,
                  lastSpeechTimeRef, isUserSpeakingRef, silenceTimerRef,
                  currentSourceRef, silenceTimerDue, recState, pendingData,
                  srcState, turns, nTurns, closureMicActive,
                  closureIsProcessing, closureHistory, devices, elevenConfigured,
                  hasVideo, obs,
                  notBatchVars >>

(* A source is playing: started and neither stopped nor ended.             *)
Playing == \E s \in TurnIds : srcState[s] = "playing"

(* The branch refreshing lastSpeechTimeRef only while already speaking.    *)
speechFrameStaleTimestamp(speaking, lastSpeech, cur, srcs, talking, t) ==
  IF ~speaking
  THEN LET st == stopAudioPlayback(cur, srcs)
       IN [ currentSourceRef |-> st.currentSourceRef,
            srcState |-> st.srcState,
            isTalking |-> st.isTalking,
            isUserSpeakingRef |-> TRUE,
            lastSpeechTimeRef |-> lastSpeech ]
  ELSE [ currentSourceRef |-> cur, srcState |-> srcs, isTalking |-> talking,
         isUserSpeakingRef |-> TRUE, lastSpeechTimeRef |-> t ]

(* The branch `rms > VAD_THRESHOLD` of onaudioprocess, at time t.          *)
speechFrame(speaking, lastSpeech, cur, srcs, talking, t) ==
  LET st == IF ~speaking
            THEN stopAudioPlayback(cur, srcs)
            ELSE [currentSourceRef |-> cur, srcState |-> srcs,
                  isTalking |-> talking, raised |-> FALSE]
  IN [ currentSourceRef |-> st.currentSourceRef,
       srcState |-> st.srcState,
       isTalking |-> st.isTalking,
       isUserSpeakingRef |-> TRUE,
       lastSpeechTimeRef |-> t ]

(* The test with the timer check inverted.                                 *)
ShouldArmInverted(speaking, elapsed, timerRef) ==
  speaking /\ elapsed > SILENCE_DURATION /\ timerRef

(* The test without the comparison against SILENCE_DURATION.               *)
ShouldArmAtOnce(speaking, elapsed, timerRef) ==
  speaking /\ ~timerRef

(* The test that arms the silence timer on a frame at or below threshold.  *)
ShouldArm(speaking, elapsed, timerRef) ==
  speaking /\ elapsed > SILENCE_DURATION /\ ~timerRef

(* processor.onaudioprocess for a frame of energy rms.                     *)
OnAudioProcess(rms) ==
  /\ sessionPc = "running"
  /\ devices.processor
  /\ ~(rms > VAD_THRESHOLD /\ ~isUserSpeakingRef /\ nTurns >= MaxTurns)
  /\ IF ~closureMicActive \/ closureIsProcessing
     THEN UNCHANGED << isUserSpeakingRef, lastSpeechTimeRef, silenceTimerRef,
                       silenceTimerDue, currentSourceRef, srcState, isTalking,
                       obs >>
     ELSE IF rms > VAD_THRESHOLD
     THEN LET st == speechFrame(isUserSpeakingRef, lastSpeechTimeRef,
                                currentSourceRef, srcState, isTalking, now)
          IN /\ currentSourceRef' = st.currentSourceRef
             /\ srcState' = st.srcState
             /\ isTalking' = st.isTalking
             /\ isUserSpeakingRef' = st.isUserSpeakingRef
             /\ lastSpeechTimeRef' = st.lastSpeechTimeRef
             /\ silenceTimerRef' = FALSE
             /\ silenceTimerDue' = NoTime
             /\ obs' = [obs EXCEPT
                          !.lastLoud = now, !.lateQuiet = NoTime,
                          !.confirms = 0, !.everLoud = TRUE,
                          !.loudSinceTurn = TRUE,
                          !.bargedIn = @ \/ (~isUserSpeakingRef /\ Playing)]
     ELSE /\ IF ShouldArm(isUserSpeakingRef, now - lastSpeechTimeRef,
                          silenceTimerRef)
             THEN /\ silenceTimerRef' = TRUE
                  /\ silenceTimerDue' = now + CONFIRM_DELAY
             ELSE UNCHANGED << silenceTimerRef, silenceTimerDue >>
          /\ obs' = IF /\ obs.lastLoud # NoTime
                       /\ obs.lateQuiet = NoTime
                       /\ now - obs.lastLoud > SILENCE_DURATION
                    THEN [obs EXCEPT !.lateQuiet = now]
                    ELSE obs
          /\ UNCHANGED << isUserSpeakingRef, lastSpeechTimeRef,
                          currentSourceRef, srcState, isTalking >>
  /\ UNCHANGED << now, sessionPc, micActive, status, isProcessing, history,
                  error, streamRef, mediaRecorderRef, audioChunksRef, recState,
                  pendingData, turns, nTurns, closureMicActive,
                  closureIsProcessing, closureHistory, devices, elevenConfigured,
                  hasVideo,
                  notBatchVars >>

(* recorder.ondataavailable for the oldest queued event.                   *)
DataAvailable ==
  /\ pendingData # <<>>
  /\ pendingData' = Tail(pendingData)
  /\ audioChunksRef' = IF Head(pendingData).size > 0
                       THEN Append(audioChunksRef, Head(pendingData))
                       ELSE audioChunksRef
  /\ UNCHANGED << now, sessionPc, micActive, status, isTalking, isProcessing,
                  history, error, streamRef, mediaRecorderRef,
                  lastSpeechTimeRef, isUserSpeakingRef, silenceTimerRef,
                  currentSourceRef, silenceTimerDue, recState, srcState, turns,
                  nTurns, closureMicActive, closureIsProcessing,
                  closureHistory, devices, elevenConfigured, hasVideo, obs,
                  notBatchVars >>

(* -------- processUserSpeech, one action per stretch between awaits ----- *)

(* The silence timer fires: processUserSpeech up to its first await.       *)
SilenceTimerFires ==
  /\ TimerPending(silenceTimerDue)
  /\ silenceTimerDue = now
  /\ nTurns < MaxTurns
  /\ silenceTimerDue' = NoTime
  /\ IF mediaRecorderRef = 0 \/ closureIsProcessing
     THEN /\ obs' = [obs EXCEPT !.confirms = @ + 1, !.totalConfirms = @ + 1]
          /\ UNCHANGED << isUserSpeakingRef, recState, pendingData,
                          isProcessing, status, turns, nTurns >>
     ELSE IF recState[mediaRecorderRef] # "recording"
     THEN \* requestData() throws InvalidStateError: the call ends here
          /\ isUserSpeakingRef' = FALSE
          /\ obs' = [obs EXCEPT !.confirms = @ + 1, !.totalConfirms = @ + 1]
          /\ UNCHANGED << recState, pendingData, isProcessing, status, turns,
                          nTurns >>
     ELSE \E s1 \in RequestDataSizes, s2 \in StopDataSizes :
          /\ isUserSpeakingRef' = FALSE
          /\ pendingData' = pendingData \o
                            << [rec |-> mediaRecorderRef, size |-> s1],
                               [rec |-> mediaRecorderRef, size |-> s2] >>
          /\ recState' = [recState EXCEPT ![mediaRecorderRef] = "inactive"]
          /\ isProcessing' = TRUE
          /\ status' = "Thinking..."
          /\ nTurns' = nTurns + 1
          /\ turns' = [turns EXCEPT ![nTurns + 1] =
                         [IdleTurn EXCEPT !.pc = "wait",
                                          !.due = now + FINALIZE_WAIT,
                                          !.loudAt = obs.lastLoud]]
          /\ obs' = [obs EXCEPT !.confirms = @ + 1, !.totalConfirms = @ + 1,
                                !.loudSinceTurn = FALSE]
  /\ UNCHANGED << now, sessionPc, micActive, isTalking, history, error,
                  streamRef, mediaRecorderRef, audioChunksRef,
                  lastSpeechTimeRef, silenceTimerRef, currentSourceRef,
                  srcState, closureMicActive, closureIsProcessing,
                  closureHistory, devices, elevenConfigured, hasVideo,
                  notBatchVars >>

(* The size test that only rejects an empty blob.                          *)
TooSmallOnlyEmpty(size) == size = 0

(* `blob.size < MIN_BLOB_SIZE`                                             *)
TooSmall(size) == size < MIN_BLOB_SIZE

(* After the 100 ms wait: build the blob, start the next recorder, and     *)
(* either discard the turn or call transcribeAudio.                        *)
WaitDone(t) ==
  /\ turns[t].pc = "wait"
  /\ turns[t].due = now
  /\ LET size == BlobSize(audioChunksRef)
     IN /\ startRecordingChunk(t + 1)
        /\ IF TooSmall(size)
           THEN /\ isProcessing' = FALSE
                /\ status' = "Listening..."
                /\ turns' = [turns EXCEPT ![t].pc = "done", ![t].due = NoTime,
                                          ![t].blob = size]
           ELSE /\ turns' = [turns EXCEPT ![t].pc = "stt", ![t].due = NoTime,
                                          ![t].blob = size, ![t].stt = @ + 1]
                /\ UNCHANGED << isProcessing, status >>
  /\ UNCHANGED << now, sessionPc, micActive, isTalking, history, error,
                  streamRef, lastSpeechTimeRef, isUserSpeakingRef,
                  silenceTimerRef, currentSourceRef, silenceTimerDue,
                  pendingData, srcState, nTurns, closureMicActive,
                  closureIsProcessing, closureHistory, devices, elevenConfigured,
                  hasVideo, obs,
                  notBatchVars >>

(* The finally block: setIsProcessing(false); if (micActive) Listening.    *)
FinallyStatus(st) == IF closureMicActive THEN "Listening..." ELSE st

(* The transcript test without the trimmed-length check.                   *)
EmptyTranscriptionNoTrim(text) == text = <<>>

(* `!transcription || transcription.trim().length < 2`                     *)
EmptyTranscription(text) == text = <<>> \/ Len(Trim(text)) < 2

(* transcribeAudio resolved with text.                                     *)
SttResolves(t, text) ==
  /\ turns[t].pc = "stt"
  /\ IF EmptyTranscription(text)
     THEN /\ isProcessing' = FALSE
          /\ status' = FinallyStatus("Listening...")
          /\ turns' = [turns EXCEPT ![t].pc = "done", ![t].text = text]
          /\ UNCHANGED history
     ELSE /\ history' = Append(closureHistory,
                               [role |-> "user", text |-> text, turn |-> t])
          /\ turns' = [turns EXCEPT ![t].pc = "gen", ![t].text = text,
                                    ![t].gen = @ + 1]
          /\ UNCHANGED << isProcessing, status >>
  /\ UNCHANGED << now, sessionPc, micActive, isTalking, error, streamRef,
                  mediaRecorderRef, audioChunksRef, lastSpeechTimeRef,
                  isUserSpeakingRef, silenceTimerRef, currentSourceRef,
                  silenceTimerDue, recState, pendingData, srcState, nTurns,
                  closureMicActive, closureIsProcessing, closureHistory, devices,
                  elevenConfigured, hasVideo, obs,
                  notBatchVars >>

(* transcribeAudio or generateAvatarResponse rejected: the catch block.    *)
PipelineRejects(t, f) ==
  /\ turns[t].pc \in {"stt", "gen"}
  /\ IF f = "429"
     THEN /\ status' = "Rate limited. Waiting..."
          /\ turns' = [turns EXCEPT ![t].pc = "cooldown", ![t].err = f,
                                    ![t].due = now + RATE_LIMIT_COOLDOWN]
          /\ UNCHANGED isProcessing
     ELSE /\ status' = FinallyStatus("Error processing speech.")
          /\ isProcessing' = FALSE
          /\ turns' = [turns EXCEPT ![t].pc = "done", ![t].err = f]
  /\ UNCHANGED << now, sessionPc, micActive, isTalking, history, error,
                  streamRef, mediaRecorderRef, audioChunksRef,
                  lastSpeechTimeRef, isUserSpeakingRef, silenceTimerRef,
                  currentSourceRef, silenceTimerDue, recState, pendingData,
                  srcState, nTurns, closureMicActive, closureIsProcessing,
                  closureHistory, devices, elevenConfigured, hasVideo, obs,
                  notBatchVars >>

(* The 3000 ms rate-limit wait is over: the finally block.                 *)
CooldownDone(t) ==
  /\ turns[t].pc = "cooldown"
  /\ turns[t].due = now
  /\ isProcessing' = FALSE
  /\ status' = FinallyStatus(status)
  /\ turns' = [turns EXCEPT ![t].pc = "done", ![t].due = NoTime]
  /\ UNCHANGED << now, sessionPc, micActive, isTalking, history, error,
                  streamRef, mediaRecorderRef, audioChunksRef,
                  lastSpeechTimeRef, isUserSpeakingRef, silenceTimerRef,
                  currentSourceRef, silenceTimerDue, recState, pendingData,
                  srcState, nTurns, closureMicActive, closureIsProcessing,
                  closureHistory, devices, elevenConfigured, hasVideo, obs,
                  notBatchVars >>

(* The provider that playResponse and playResponseAudio call first, the    *)
(* default one in place of the premium one.                                *)
firstProviderDefault(configured) == "gemtts"

(* The provider that playResponse and playResponseAudio call first.        *)
firstProvider(configured) == IF configured THEN "eleven" ELSE "gemtts"

(* generateAvatarResponse resolved: append the reply, enter playResponse.  *)
GenResolves(t, reply) ==
  /\ turns[t].pc = "gen"
  /\ history' = Append(history, [role |-> "model", text |-> reply, turn |-> t])
  /\ status' = "Speaking..."
  /\ turns' = [turns EXCEPT ![t].pc = firstProvider(elevenConfigured),
                            ![t].tts = @ + 1,
                            ![t].eleven =
                              IF firstProvider(elevenConfigured) = "eleven"
                              THEN @ + 1 ELSE @,
                            ![t].gemini =
                              IF firstProvider(elevenConfigured) = "eleven"
                              THEN @ ELSE @ + 1]
  /\ UNCHANGED << now, sessionPc, micActive, isTalking, isProcessing, error,
                  streamRef, mediaRecorderRef, audioChunksRef,
                  lastSpeechTimeRef, isUserSpeakingRef, silenceTimerRef,
                  currentSourceRef, silenceTimerDue, recState, pendingData,
                  srcState, nTurns, closureMicActive, closureIsProcessing,
                  closureHistory, devices, elevenConfigured, hasVideo, obs,
                  notBatchVars >>

(* The audio synthesized by provider is decoded: playAudioBuffer, then     *)
(* back in processUserSpeech the finally block.                            *)
PlayAndFinish(t, provider) ==
  LET st == playAudioBuffer(currentSourceRef, srcState, t)
  IN /\ currentSourceRef' = st.currentSourceRef
     /\ srcState' = st.srcState
     /\ isTalking' = st.isTalking
     /\ isProcessing' = FALSE
     /\ status' = FinallyStatus(status)
     /\ turns' = [turns EXCEPT ![t].pc = "done", ![t].voice = provider]

(* generateElevenLabsSpeech and decodeAudioData both succeeded.            *)
ElevenResolves(t) ==
  /\ turns[t].pc = "eleven"
  /\ PlayAndFinish(t, "premium")
  /\ UNCHANGED << now, sessionPc, micActive, history, error, streamRef,
                  mediaRecorderRef, audioChunksRef, lastSpeechTimeRef,
                  isUserSpeakingRef, silenceTimerRef, silenceTimerDue,
                  recState, pendingData, nTurns, closureMicActive,
                  closureIsProcessing, closureHistory, devices, elevenConfigured,
                  hasVideo, obs,
                  notBatchVars >>

(* The ElevenLabs request or the decoding of its audio failed: the inner   *)
(* catch, then generateSpeech is called.                                   *)
ElevenRejects(t) ==
  /\ turns[t].pc = "eleven"
  /\ turns' = [turns EXCEPT ![t].pc = "gemtts", ![t].tts = @ + 1,
                            ![t].gemini = @ + 1]
  /\ UNCHANGED << now, sessionPc, micActive, status, isTalking, isProcessing,
                  history, error, streamRef, mediaRecorderRef, audioChunksRef,
                  lastSpeechTimeRef, isUserSpeakingRef, silenceTimerRef,
                  currentSourceRef, silenceTimerDue, recState, pendingData,
                  srcState, nTurns, closureMicActive, closureIsProcessing,
                  closureHistory, devices, elevenConfigured, hasVideo, obs,
                  notBatchVars >>

(* generateSpeech and decodeAudioData both succeeded.                      *)
GeminiTtsResolves(t) ==
  /\ turns[t].pc = "gemtts"
  /\ PlayAndFinish(t, "default")
  /\ UNCHANGED << now, sessionPc, micActive, history, error, streamRef,
                  mediaRecorderRef, audioChunksRef, lastSpeechTimeRef,
                  isUserSpeakingRef, silenceTimerRef, silenceTimerDue,
                  recState, pendingData, nTurns, closureMicActive,
                  closureIsProcessing, closureHistory, devices, elevenConfigured,
                  hasVideo, obs,
                  notBatchVars >>

(* generateSpeech or its decoding failed with f: playResponse's catch sets *)
(* 'Audio Error' whatever f is and does not rethrow, then the finally      *)
(* block of processUserSpeech runs.                                        *)
GeminiTtsRejects(t, f) ==
  /\ turns[t].pc = "gemtts"
  /\ status' = FinallyStatus("Audio Error")
  /\ isProcessing' = FALSE
  /\ turns' = [turns EXCEPT ![t].pc = "done", ![t].err = f]
  /\ UNCHANGED << now, sessionPc, micActive, isTalking, history, error,
                  streamRef, mediaRecorderRef, audioChunksRef,
                  lastSpeechTimeRef, isUserSpeakingRef, silenceTimerRef,
                  currentSourceRef, silenceTimerDue, recState, pendingData,
                  srcState, nTurns, closureMicActive, closureIsProcessing,
                  closureHistory, devices, elevenConfigured, hasVideo, obs,
                  notBatchVars >>

(* source.onended of the batch session.                                    *)
onended(st) == [status |-> "Listening...", isTalking |-> FALSE]

(* Source s plays to its end.                                              *)
SourceEnds(s) ==
  /\ srcState[s] = "playing"
  /\ srcState' = [srcState EXCEPT ![s] = "ended"]
  /\ status' = onended(s).status
  /\ isTalking' = onended(s).isTalking
  /\ UNCHANGED << now, sessionPc, micActive, isProcessing, history, error,
                  streamRef, mediaRecorderRef, audioChunksRef,
                  lastSpeechTimeRef, isUserSpeakingRef, silenceTimerRef,
                  currentSourceRef, silenceTimerDue, recState, pendingData,
                  turns, nTurns, closureMicActive, closureIsProcessing,
                  closureHistory, devices, elevenConfigured, hasVideo, obs,
                  notBatchVars >>

(* The ended event of a source that was stopped by stopAudioPlayback.      *)
StoppedSourceEnds(s) ==
  /\ srcState[s] = "stopped"
  /\ srcState' = [srcState EXCEPT ![s] = "ended"]
  /\ status' = onended(s).status
  /\ isTalking' = onended(s).isTalking
  /\ UNCHANGED << now, sessionPc, micActive, isProcessing, history, error,
                  streamRef, mediaRecorderRef, audioChunksRef,
                  lastSpeechTimeRef, isUserSpeakingRef, silenceTimerRef,
                  currentSourceRef, silenceTimerDue, recState, pendingData,
                  turns, nTurns, closureMicActive, closureIsProcessing,
                  closureHistory, devices, elevenConfigured, hasVideo, obs,
                  notBatchVars >>

(* One tick of syncLipMovement; avg is the analyser's average energy.      *)
Audible == \E s \in TurnIds : srcState[s] \in {"playing", "stopped"}

(* The next frame is requested only after a tick that read the analyser.   *)
requestAnimationFrameIfUsable(usable) == usable

(* animationFrameRef.current = requestAnimationFrame(syncLipMovement), the *)
(* last statement of syncLipMovement, outside the test of analyser and     *)
(* video.                                                                  *)
requestAnimationFrame(usable) == TRUE

SyncLipMovement(avg) ==
  /\ sessionPc = "running"
  /\ devices.raf
  /\ avg > 0 => (hasVideo /\ Audible)
  /\ isTalking' = IF hasVideo THEN avg > LIP_SYNC_THRESHOLD ELSE isTalking
  /\ devices' = [devices EXCEPT !.raf = requestAnimationFrame(hasVideo)]
  /\ UNCHANGED << now, sessionPc, micActive, status, isProcessing, history,
                  error, streamRef, mediaRecorderRef, audioChunksRef,
                  lastSpeechTimeRef, isUserSpeakingRef, silenceTimerRef,
                  currentSourceRef, silenceTimerDue, recState, pendingData,
                  srcState, turns, nTurns, closureMicActive,
                  closureIsProcessing, closureHistory, elevenConfigured,
                  hasVideo, obs,
                  notBatchVars >>

NextBatch ==
  \/ \E d \in Deltas : Advance(d)
  \/ AdvanceToTimer
  \/ StartSession
  \/ GetUserMediaResolves
  \/ GetUserMediaRejects
  \/ \E rms \in RmsValues : OnAudioProcess(rms)
  \/ DataAvailable
  \/ SilenceTimerFires
  \/ \E t \in TurnIds : WaitDone(t)
  \/ \E t \in TurnIds, text \in Transcripts : SttResolves(t, text)
  \/ \E t \in TurnIds, f \in Failures : PipelineRejects(t, f)
  \/ \E t \in TurnIds : CooldownDone(t)
  \/ \E t \in TurnIds, reply \in Replies : GenResolves(t, reply)
  \/ \E t \in TurnIds : ElevenResolves(t)
  \/ \E t \in TurnIds : ElevenRejects(t)
  \/ \E t \in TurnIds : GeminiTtsResolves(t)
  \/ \E t \in TurnIds, f \in Failures : GeminiTtsRejects(t, f)
  \/ \E s \in TurnIds : SourceEnds(s)
  \/ \E s \in TurnIds : StoppedSourceEnds(s)
  \/ \E avg \in Energies : SyncLipMovement(avg)

(* ================= streaming session: src/unnamed/part_000 ============= *)

IdleSeg ==
  [state |-> "none", dur |-> 0, start |-> 0, ord |-> 0, old |-> FALSE]

(* The handlers suspended at `await decodeAudioData`; ord counts the       *)
(* suspended handlers whose message arrived earlier.                       *)
Decoding(sg) == {s \in SegIds : sg[s].state = "decoding"}

(* Handler s leaves the await: the handlers behind it move up.             *)
Dequeue(sg, s) ==
  [a \in SegIds |-> IF sg[a].state = "decoding" /\ sg[a].ord > sg[s].ord
                    THEN [sg[a] EXCEPT !.ord = @ - 1]
                    ELSE sg[a]]

(* decodeAudioData whose promises settle in any order.                     *)
decodeAudioDataAnyOrder(sg) == Decoding(sg)

(* decodeAudioData of utils/audioUtils: frames are processed in arrival    *)
(* order, so the promise that settles next is the one created first.       *)
decodeAudioData(sg) == {s \in Decoding(sg) : sg[s].ord = 0}

(* lastEnd: start time plus duration of the native segment scheduled most  *)
(* recently; cancelSinceLast: stopAllAudio ran since then; cancelsInRow:   *)
(* calls of stopAllAudio, counted up to two, since a source was last added *)
(* to the set; watch: the field old of the segments is recorded.           *)
InitLiveObs == [lastEnd |-> NoTime, cancelSinceLast |-> FALSE,
                cancelsInRow |-> 0, watch |-> FALSE, frames |-> 0]

InitLiveWith(conn, custom, o) ==
  /\ liveConn = conn
  /\ liveStatus = "Initializing..."
  /\ liveError = "null"
  /\ useCustomVoice = custom
  /\ isAiSpeaking = FALSE
  /\ nextStartTimeRef = 0
  /\ audioSourcesRef = {}
  /\ currentTranscriptRef = <<>>
  /\ outputClock = 0
  /\ segs = [s \in SegIds |-> IdleSeg]
  /\ liveObs = o
  /\ liveMic = "none"
  /\ sentFrames = <<>>

InitLive(conn, custom) == InitLiveWith(conn, custom, InitLiveObs)

(* The source has played to its end; its ended event may not have been     *)
(* dispatched yet.                                                         *)
Finished(seg, clock) == seg.state = "scheduled" /\ clock >= seg.start + seg.dur

(* source.stop(): a source that has not finished is stopped and its ended  *)
(* event is queued; stopping a finished source changes nothing.            *)
SegStop(seg, clock) ==
  IF seg.state = "scheduled" /\ ~Finished(seg, clock)
  THEN [IdleSeg EXCEPT !.state = "stopped"]
  ELSE seg

(* stopAllAudio with `source.stop()` outside a try block.                  *)
stopAllAudioNoCatch(set, sg, clock) ==
  [ audioSourcesRef |-> {},
    segs |-> [s \in SegIds |-> IF s \in set THEN SegStop(sg[s], clock)
                                            ELSE sg[s]],
    isAiSpeaking |-> FALSE,
    nextStartTimeRef |-> 0,
    raised |-> \E s \in set : Finished(sg[s], clock) ]

(* stopAllAudio leaving nextStartTimeRef as it is.                         *)
stopAllAudioKeepsNext(set, sg, clock) ==
  [ audioSourcesRef |-> {},
    segs |-> [s \in SegIds |-> IF s \in set THEN SegStop(sg[s], clock)
                                            ELSE sg[s]],
    isAiSpeaking |-> FALSE,
    nextStartTimeRef |-> nextStartTimeRef,
    raised |-> FALSE ]

(* stopAllAudio: the try/catch swallows whatever stop() throws.            *)
stopAllAudio(set, sg, clock) ==
  [ audioSourcesRef |-> {},
    segs |-> [s \in SegIds |-> IF s \in set THEN SegStop(sg[s], clock)
                                            ELSE sg[s]],
    isAiSpeaking |-> FALSE,
    nextStartTimeRef |-> 0,
    raised |-> FALSE ]

NoteCancel(o) ==
  [o EXCEPT !.cancelSinceLast = TRUE,
            !.cancelsInRow = IF @ < 2 THEN @ + 1 ELSE @]

(* A source node that has ended or was never started is garbage: its slot  *)
(* is free for the next createBufferSource.                                *)
FreeSegs == {s \in SegIds : segs[s].state = "none"}
NewSeg == CHOOSE s \in FreeSegs : \A r \in FreeSegs : s <= r

(* The mount effect, run again when the connection has ended.              *)
mountEffectAgain(conn) == conn \in {"mounted", "failed", "closed"}

(* `useEffect(() => { startSession(); ... }, [])`: startSession, the only  *)
(* caller of ai.live.connect, runs when the component has just mounted.    *)
mountEffect(conn) == conn = "mounted"

(* startSession: the audio contexts are created and ai.live.connect is     *)
(* called.                                                                 *)
LiveStartSession ==
  /\ mountEffect(liveConn)
  /\ liveConn' = "connecting"
  /\ liveStatus' = "Connecting to Gemini Live..."
  /\ UNCHANGED << liveError, useCustomVoice, liveMic, sentFrames, isAiSpeaking, nextStartTimeRef,
                  audioSourcesRef, currentTranscriptRef, outputClock, segs,
                  liveObs, notLiveVars >>

(* callbacks.onopen: the status is set, then startMicrophone is entered    *)
(* and awaits getUserMedia.                                                *)
OnOpen ==
  /\ liveConn = "connecting"
  /\ liveConn' = "open"
  /\ liveStatus' = "Connected"
  /\ liveMic' = "awaiting"
  /\ UNCHANGED << sentFrames, liveError, useCustomVoice, isAiSpeaking, nextStartTimeRef,
                  audioSourcesRef, currentTranscriptRef, outputClock, segs,
                  liveObs, notLiveVars >>

(* getUserMedia resolved in startMicrophone: the stream is kept and the    *)
(* processor that encodes and sends the frames is connected.               *)
LiveMicResolves ==
  /\ liveMic = "awaiting"
  /\ liveMic' = "on"
  /\ UNCHANGED << sentFrames, liveConn, liveStatus, liveError, useCustomVoice,
                  isAiSpeaking, nextStartTimeRef, audioSourcesRef,
                  currentTranscriptRef, outputClock, segs, liveObs,
                  notLiveVars >>

(* getUserMedia rejected in startMicrophone: the catch block sets the      *)
(* error message and nothing else.                                         *)
LiveMicRejects ==
  /\ liveMic = "awaiting"
  /\ liveMic' = "denied"
  /\ liveError' = "Microphone access denied"
  /\ UNCHANGED << sentFrames, liveConn, liveStatus, useCustomVoice, isAiSpeaking,
                  nextStartTimeRef, audioSourcesRef, currentTranscriptRef,
                  outputClock, segs, liveObs, notLiveVars >>

(* The frame is sent only when its energy is above the VAD threshold.      *)
sendRealtimeInputGated(sent, rms) ==
  IF rms > VAD_THRESHOLD THEN Append(sent, rms) ELSE sent

(* session.sendRealtimeInput({ media: createPcmBlob(inputData) }) from the *)
(* then-callback of the session promise: one call for each frame.          *)
sendRealtimeInput(sent, rms) == Append(sent, rms)

(* processor.onaudioprocess of startMicrophone for a frame of energy rms:  *)
(* micActive is the value of the first render, true; the frame is encoded  *)
(* and sent through the session promise, whatever the state of the         *)
(* connection.  Nothing else is done with it.                              *)
LiveFrame(rms) ==
  /\ liveMic = "on"
  /\ liveObs.frames < MaxFrames
  /\ sentFrames' = sendRealtimeInput(sentFrames, rms)
  /\ liveObs' = [liveObs EXCEPT !.frames = @ + 1]
  /\ UNCHANGED << liveConn, liveStatus, liveError, useCustomVoice, liveMic,
                  isAiSpeaking, nextStartTimeRef, audioSourcesRef,
                  currentTranscriptRef, outputClock, segs, notLiveVars >>

(* toggleMic of the streaming session: setMicActive(!micActive).           *)
toggleMic ==
  /\ liveConn # "absent"
  /\ ToggleMic

(* callbacks.onerror                                                       *)
OnError ==
  /\ liveConn \in {"connecting", "open"}
  /\ liveConn' = "failed"
  /\ liveError' = "Connection error"
  /\ liveStatus' = "Error"
  /\ UNCHANGED << useCustomVoice, liveMic, sentFrames, isAiSpeaking, nextStartTimeRef,
                  audioSourcesRef, currentTranscriptRef, outputClock, segs,
                  liveObs, notLiveVars >>

(* callbacks.onclose                                                       *)
OnClose ==
  /\ liveConn \in {"open", "failed"}
  /\ liveConn' = "closed"
  /\ liveStatus' = "Disconnected"
  /\ UNCHANGED << liveError, useCustomVoice, liveMic, sentFrames, isAiSpeaking, nextStartTimeRef,
                  audioSourcesRef, currentTranscriptRef, outputClock, segs,
                  liveObs, notLiveVars >>

(* The output context's clock advances.                                    *)
LiveTick ==
  /\ liveConn \notin {"absent", "mounted"}
  /\ outputClock < MaxClock
  /\ outputClock' = outputClock + 1
  /\ UNCHANGED << liveConn, liveStatus, liveError, useCustomVoice, liveMic, sentFrames,
                  isAiSpeaking, nextStartTimeRef, audioSourcesRef,
                  currentTranscriptRef, segs, liveObs, notLiveVars >>

(* The handlers that are suspended at an await keep running; old records   *)
(* that their message came before an interruption.                         *)
Suspended(sg) ==
  [s \in SegIds |-> IF liveObs.watch /\ sg[s].state \in {"decoding", "synth"}
                    THEN [sg[s] EXCEPT !.old = TRUE]
                    ELSE sg[s]]

(* The interrupted branch without its `return`: the audio of the same      *)
(* message goes on to Path B.                                              *)
InterruptedFallsThrough(m) ==
  LET st == stopAllAudio(audioSourcesRef, segs, outputClock)
      free == {s \in SegIds : st.segs[s].state = "none"}
      slot == CHOOSE s \in free : \A r \in free : s <= r
  IN /\ audioSourcesRef' = st.audioSourcesRef
     /\ segs' = IF m.audio > 0 /\ free # {}
                THEN [st.segs EXCEPT ![slot] =
                        [IdleSeg EXCEPT !.state = "decoding",
                                        !.dur = m.audio,
                                        !.ord = Cardinality(Decoding(st.segs))]]
                ELSE st.segs
     /\ isAiSpeaking' = st.isAiSpeaking
     /\ nextStartTimeRef' = st.nextStartTimeRef
     /\ currentTranscriptRef' = <<>>
     /\ liveObs' = NoteCancel(liveObs)

(* The interrupted branch of handleMessage: stopAllAudio, the transcript   *)
(* is emptied and the handler returns; nothing else of m is read.          *)
Interrupted(m) ==
  LET st == stopAllAudio(audioSourcesRef, segs, outputClock)
  IN /\ audioSourcesRef' = st.audioSourcesRef
     /\ segs' = Suspended(st.segs)
     /\ isAiSpeaking' = st.isAiSpeaking
     /\ nextStartTimeRef' = st.nextStartTimeRef
     /\ currentTranscriptRef' = <<>>
     /\ liveObs' = NoteCancel(liveObs)

(* Path A of handleMessage up to its first await; acc is the transcript    *)
(* after the text of the message has been appended.                        *)
CustomVoice(m, acc) ==
  IF ~m.turnComplete
  THEN /\ currentTranscriptRef' = acc
       /\ UNCHANGED << audioSourcesRef, segs, isAiSpeaking, nextStartTimeRef,
                       liveObs >>
  ELSE IF Trim(acc) = <<>>
  THEN /\ currentTranscriptRef' = <<>>
       /\ UNCHANGED << audioSourcesRef, segs, isAiSpeaking, nextStartTimeRef,
                       liveObs >>
  ELSE LET st == stopAllAudio(audioSourcesRef, segs, outputClock)
       IN /\ FreeSegs # {}
          /\ currentTranscriptRef' = <<>>
          /\ audioSourcesRef' = st.audioSourcesRef
          /\ nextStartTimeRef' = st.nextStartTimeRef
          /\ isAiSpeaking' = TRUE
          /\ segs' = [st.segs EXCEPT ![NewSeg] =
                        [IdleSeg EXCEPT !.state = "synth"]]
          /\ liveObs' = NoteCancel(liveObs)

(* Path B of handleMessage up to `await decodeAudioData`.                  *)
NativeAudio(m) ==
  IF m.audio > 0
  THEN /\ FreeSegs # {}
       /\ segs' = [segs EXCEPT ![NewSeg] =
                     [IdleSeg EXCEPT !.state = "decoding", !.dur = m.audio,
                                     !.ord = Cardinality(Decoding(segs))]]
       /\ UNCHANGED << audioSourcesRef, isAiSpeaking, nextStartTimeRef,
                       currentTranscriptRef, liveObs >>
  ELSE UNCHANGED << audioSourcesRef, segs, isAiSpeaking, nextStartTimeRef,
                    currentTranscriptRef, liveObs >>

(* callbacks.onmessage: handleMessage(m) up to its first await.            *)
HandleMessage(m) ==
  /\ liveConn = "open"
  /\ IF m.interrupted
     THEN Interrupted(m)
     ELSE IF useCustomVoice
     THEN LET acc == IF m.text # <<>> THEN currentTranscriptRef \o m.text
                                      ELSE currentTranscriptRef
          IN Len(acc) <= MaxTranscript /\ CustomVoice(m, acc)
     ELSE NativeAudio(m)
  /\ UNCHANGED << liveConn, liveStatus, liveError, useCustomVoice, liveMic, sentFrames, outputClock,
                  notLiveVars >>

(* The start time without the comparison against the clock.                *)
scheduleStartNoMax(next, clock) == next

(* `Math.max(nextStartTimeRef.current, ctx.currentTime)`                   *)
scheduleStart(next, clock) == Max(next, clock)

(* decodeAudioData resolved for segment s: the rest of Path B.             *)
DecodeResolves(s) ==
  /\ s \in decodeAudioData(segs)
  /\ LET start == scheduleStart(nextStartTimeRef, outputClock)
     IN /\ segs' = [Dequeue(segs, s) EXCEPT ![s].state = "scheduled",
                                           ![s].start = start,
                                           ![s].ord = 0]
        /\ nextStartTimeRef' = start + segs[s].dur
        /\ liveObs' = [liveObs EXCEPT !.lastEnd = start + segs[s].dur,
                                       !.cancelSinceLast = FALSE,
                                       !.cancelsInRow = 0]
  /\ audioSourcesRef' = audioSourcesRef \cup {s}
  /\ isAiSpeaking' = TRUE
  /\ UNCHANGED << liveConn, liveStatus, liveError, useCustomVoice, liveMic, sentFrames,
                  currentTranscriptRef, outputClock, notLiveVars >>

(* atob or decodeAudioData threw: the catch of Path B.                     *)
DecodeRejects(s) ==
  /\ s \in decodeAudioData(segs)
  /\ segs' = [Dequeue(segs, s) EXCEPT ![s] = IdleSeg]
  /\ UNCHANGED << liveConn, liveStatus, liveError, useCustomVoice, liveMic, sentFrames,
                  isAiSpeaking, nextStartTimeRef, audioSourcesRef,
                  currentTranscriptRef, outputClock, liveObs, notLiveVars >>

(* generateElevenLabsSpeech and ctx.decodeAudioData resolved with audio of *)
(* duration d: source.start(0) and the source joins the set.               *)
SynthResolves(s, d) ==
  /\ segs[s].state = "synth"
  /\ segs' = [segs EXCEPT ![s] = [IdleSeg EXCEPT !.state = "scheduled",
                                                 !.start = outputClock,
                                                 !.dur = d,
                                                 !.old = segs[s].old]]
  /\ audioSourcesRef' = audioSourcesRef \cup {s}
  /\ liveObs' = [liveObs EXCEPT !.cancelsInRow = 0]
  /\ UNCHANGED << liveConn, liveStatus, liveError, useCustomVoice, liveMic, sentFrames,
                  isAiSpeaking, nextStartTimeRef, currentTranscriptRef,
                  outputClock, notLiveVars >>

(* The synthesis or its decoding failed: the catch of Path A.              *)
SynthRejects(s) ==
  /\ segs[s].state = "synth"
  /\ segs' = [segs EXCEPT ![s] = IdleSeg]
  /\ isAiSpeaking' = FALSE
  /\ UNCHANGED << liveConn, liveStatus, liveError, useCustomVoice, liveMic, sentFrames,
                  nextStartTimeRef, audioSourcesRef, currentTranscriptRef,
                  outputClock, liveObs, notLiveVars >>

(* source.onended of the streaming session, Path A and Path B.             *)
liveOnended(set, s, speaking) ==
  LET rest == set \ {s}
  IN [ audioSourcesRef |-> rest,
       isAiSpeaking |-> IF useCustomVoice THEN FALSE
                        ELSE IF rest = {} THEN FALSE ELSE speaking ]

(* The ended event of a source that played to its end.                     *)
SegmentEnds(s) ==
  /\ Finished(segs[s], outputClock)
  /\ segs' = [segs EXCEPT ![s] = IdleSeg]
  /\ audioSourcesRef' = liveOnended(audioSourcesRef, s, isAiSpeaking).audioSourcesRef
  /\ isAiSpeaking' = liveOnended(audioSourcesRef, s, isAiSpeaking).isAiSpeaking
  /\ UNCHANGED << liveConn, liveStatus, liveError, useCustomVoice, liveMic, sentFrames,
                  nextStartTimeRef, currentTranscriptRef, outputClock, liveObs,
                  notLiveVars >>

(* The ended event of a source that stopAllAudio stopped.                  *)
StoppedSegmentEnds(s) ==
  /\ segs[s].state = "stopped"
  /\ segs' = [segs EXCEPT ![s] = IdleSeg]
  /\ audioSourcesRef' = liveOnended(audioSourcesRef, s, isAiSpeaking).audioSourcesRef
  /\ isAiSpeaking' = liveOnended(audioSourcesRef, s, isAiSpeaking).isAiSpeaking
  /\ UNCHANGED << liveConn, liveStatus, liveError, useCustomVoice, liveMic, sentFrames,
                  nextStartTimeRef, currentTranscriptRef, outputClock, liveObs,
                  notLiveVars >>

NextLive ==
  \/ LiveStartSession
  \/ OnOpen
  \/ OnError
  \/ OnClose
  \/ LiveTick
  \/ \E m \in Messages : HandleMessage(m)
  \/ \E s \in SegIds : DecodeResolves(s)
  \/ \E s \in SegIds : DecodeRejects(s)
  \/ \E s \in SegIds, d \in Durations : SynthResolves(s, d)
  \/ \E s \in SegIds : SynthRejects(s)
  \/ \E s \in SegIds : SegmentEnds(s)
  \/ \E s \in SegIds : StoppedSegmentEnds(s)

(* ====== text chat: src/components/AvatarChat.tsx and the generator ===== *)

NoAudio == [eleven |-> 0, gemini |-> 0, voice |-> "none"]

(* No MediaRecorder of the chat exists; isProcessing and messages are the  *)
(* values in the render whose handleSubmit the recorder's onstop calls.    *)
NoRecording == [pc |-> "none", isProcessing |-> FALSE, messages |-> <<>>]

InitChat(version, voice) ==
  /\ chatVoice = voice
  /\ chatAudio = NoAudio
  /\ messages = <<>>
  /\ chatIsProcessing = FALSE
  /\ chatPc = "mounted"
  /\ serviceVersion = version
  /\ lastRequest = [made |-> FALSE, history |-> <<>>, all |-> <<>>]
  /\ nSubmits = 0
  /\ recording = NoRecording

Includes(text, part) == \E i \in 1..Len(text) : text[i] = part
StartsWith(text, part) == text # <<>> /\ Head(text) = part

(* `array.slice(-n)`                                                       *)
SliceLast(sq, n) ==
  IF Len(sq) <= n THEN sq ELSE SubSeq(sq, Len(sq) - n + 1, Len(sq))

(* The filter of unnamed/part_007.                                         *)
Clean(msg) ==
  /\ msg.text # <<>>
  /\ Len(Trim(msg.text)) > 0
  /\ ~Includes(msg.text, "I am listening")
  /\ ~StartsWith(msg.text, "(Silence")

cleanHistory(hist) == SelectSeq(hist, Clean)

(* `cleanHistory.slice(-6)`                                                *)
recentHistory(hist) == SliceLast(cleanHistory(hist), HISTORY_WINDOW)

(* `history.map(h => ...)` of services/geminiService.ts: every entry.      *)
chatHistory(hist) == hist

(* The prior messages that generateAvatarResponse puts in its request.     *)
generateAvatarResponse(version, hist) ==
  IF version = "unnamed/part_007" THEN recentHistory(hist)
                                  ELSE chatHistory(hist)

(* What a resolved generateAvatarResponse can return.                      *)
RepliesOf(version) ==
  IF version = "unnamed/part_007"
  THEN { <<"o", "k">>, <<"I am listening", ".">>, <<"(Silence", ")">> }
  ELSE { <<"o", "k">>, <<>> }

NewMessage(role, text) == [role |-> role, text |-> text, n |-> Len(messages) + 1]

(* The effect that adds the welcome message.                               *)
WelcomeEffect ==
  /\ chatPc = "mounted"
  /\ messages' = IF messages = <<>>
                 THEN << NewMessage("model", <<"Hello">>) >>
                 ELSE messages
  /\ chatPc' = "idle"
  /\ UNCHANGED << chatIsProcessing, serviceVersion, lastRequest, nSubmits,
                  chatVoice, chatAudio, recording,
                  notChatVars >>

(* handleSubmit(text) up to `await generateAvatarResponse`.                *)
HandleSubmit(text) ==
  /\ chatPc \in {"idle", "gen", "eleven", "gemtts", "fallback"}
  /\ nSubmits < MaxSubmits
  /\ IF Trim(text) = <<>> \/ chatIsProcessing
     THEN UNCHANGED << messages, chatIsProcessing, chatPc, lastRequest,
                       nSubmits >>
     ELSE /\ nSubmits' = nSubmits + 1
          /\ messages' = Append(messages, NewMessage("user", text))
          /\ chatIsProcessing' = TRUE
          /\ chatPc' = "gen"
          /\ lastRequest' =
               [made |-> TRUE,
                history |-> generateAvatarResponse(serviceVersion, messages),
                all |-> messages]
  /\ UNCHANGED << serviceVersion, chatVoice, chatAudio, recording,
                  notChatVars >>

(* generateAvatarResponse resolved: playResponseAudio is entered and calls *)
(* its first provider.                                                     *)
ChatGenResolves(reply) ==
  /\ chatPc = "gen"
  /\ messages' = Append(messages, NewMessage("model", reply))
  /\ chatPc' = firstProvider(chatVoice)
  /\ chatAudio' = [eleven |-> IF chatPc' = "eleven" THEN 1 ELSE 0,
                   gemini |-> IF chatPc' = "eleven" THEN 0 ELSE 1,
                   voice |-> "none"]
  /\ UNCHANGED << chatIsProcessing, serviceVersion, lastRequest, nSubmits,
                  chatVoice, recording,
                  notChatVars >>

(* generateAvatarResponse rejected: the catch and the finally block.       *)
ChatGenRejects ==
  /\ chatPc = "gen"
  /\ messages' = Append(messages, NewMessage("error", <<"trouble">>))
  /\ chatIsProcessing' = FALSE
  /\ chatPc' = "idle"
  /\ UNCHANGED << serviceVersion, lastRequest, nSubmits, chatVoice,
                  chatAudio, recording,
                  notChatVars >>

(* playResponseAudio returned (it catches its own errors): the finally     *)
(* block of handleSubmit.                                                  *)
PlayResponseAudioDone ==
  /\ chatIsProcessing' = FALSE
  /\ chatPc' = "idle"

(* generateElevenLabsSpeech and the decoding succeeded: the source starts. *)
ChatElevenResolves ==
  /\ chatPc = "eleven"
  /\ chatAudio' = [chatAudio EXCEPT !.voice = "premium"]
  /\ PlayResponseAudioDone
  /\ UNCHANGED << messages, serviceVersion, lastRequest, nSubmits, chatVoice,
                  recording,
                  notChatVars >>

(* The premium request or its decoding failed: the catch block calls       *)
(* generateSpeech, as profile.elevenLabsVoiceId is set.                    *)
ChatElevenRejects ==
  /\ chatPc = "eleven"
  /\ chatPc' = "fallback"
  /\ chatAudio' = [chatAudio EXCEPT !.gemini = @ + 1]
  /\ UNCHANGED << messages, chatIsProcessing, serviceVersion, lastRequest,
                  nSubmits, chatVoice, recording,
                  notChatVars >>

(* generateSpeech and its decoding succeeded, in the try block or in the   *)
(* catch block: the source starts.                                         *)
ChatGeminiResolves ==
  /\ chatPc \in {"gemtts", "fallback"}
  /\ chatAudio' = [chatAudio EXCEPT !.voice = "default"]
  /\ PlayResponseAudioDone
  /\ UNCHANGED << messages, serviceVersion, lastRequest, nSubmits, chatVoice,
                  recording,
                  notChatVars >>

(* generateSpeech or its decoding failed: in the try block the catch does  *)
(* nothing more as no premium voice is set; in the catch block the inner   *)
(* catch logs the error.                                                   *)
ChatGeminiRejects ==
  /\ chatPc \in {"gemtts", "fallback"}
  /\ PlayResponseAudioDone
  /\ UNCHANGED << messages, serviceVersion, lastRequest, nSubmits, chatVoice,
                  chatAudio, recording,
                  notChatVars >>

(* startRecording: getUserMedia resolved, the recorder is created and     *)
(* started, and its onstop closes over the handleSubmit of this render.    *)
startRecording ==
  /\ chatPc # "mounted"
  /\ recording.pc = "none"
  /\ nSubmits < MaxSubmits
  /\ recording' = [pc |-> "recording", isProcessing |-> chatIsProcessing,
                   messages |-> messages]
  /\ UNCHANGED << messages, chatIsProcessing, chatPc, serviceVersion,
                  lastRequest, nSubmits, chatVoice, chatAudio, notChatVars >>

(* stopRecording, then onstop up to `await transcribeAudio`.               *)
stopRecording ==
  /\ recording.pc = "recording"
  /\ recording' = [recording EXCEPT !.pc = "transcribing"]
  /\ chatIsProcessing' = TRUE
  /\ UNCHANGED << messages, chatPc, serviceVersion, lastRequest, nSubmits,
                  chatVoice, chatAudio, notChatVars >>

(* transcribeAudio resolved with `text`: onstop calls handleSubmit(text)   *)
(* of the render it closed over, without awaiting it, and its finally      *)
(* block runs while that call waits for generateAvatarResponse. A call     *)
(* made while another one is at its await is not followed further.         *)
TranscribeResolves(text) ==
  /\ recording.pc = "transcribing"
  /\ recording' = NoRecording
  /\ IF Trim(text) = <<>> \/ recording.isProcessing
     THEN UNCHANGED << messages, chatPc, lastRequest, nSubmits >>
     ELSE /\ chatPc = "idle"
          /\ nSubmits' = nSubmits + 1
          /\ messages' = Append(recording.messages,
                                [role |-> "user", text |-> text,
                                 n |-> Len(recording.messages) + 1])
          /\ chatPc' = "gen"
          /\ lastRequest' =
               [made |-> TRUE,
                history |-> generateAvatarResponse(serviceVersion,
                                                   recording.messages),
                all |-> recording.messages]
  /\ chatIsProcessing' = FALSE
  /\ UNCHANGED << serviceVersion, chatVoice, chatAudio, notChatVars >>

(* blobToBase64 or transcribeAudio rejected: the catch and the finally.    *)
TranscribeRejects ==
  /\ recording.pc = "transcribing"
  /\ recording' = NoRecording
  /\ chatIsProcessing' = FALSE
  /\ UNCHANGED << messages, chatPc, serviceVersion, lastRequest, nSubmits,
                  chatVoice, chatAudio, notChatVars >>

NextChat ==
  \/ WelcomeEffect
  \/ \E text \in UserTexts : HandleSubmit(text)
  \/ \E reply \in RepliesOf(serviceVersion) : ChatGenResolves(reply)
  \/ ChatGenRejects
  \/ ChatElevenResolves
  \/ ChatElevenRejects
  \/ ChatGeminiResolves
  \/ ChatGeminiRejects

(* ========= service calls: geminiService.ts, part_007, elevenLabsService = *)

OkResult == [ok |-> TRUE, status |-> 200, code |-> 0, message |-> {}]

(* The errors a request can fail with; message is the set of the tokens    *)
(* the helpers look for that error.message contains.                       *)
ApiErrors ==
  { [ok |-> FALSE, status |-> 429, code |-> 0, message |-> {}],
    [ok |-> FALSE, status |-> 503, code |-> 0, message |-> {}],
    [ok |-> FALSE, status |-> 0, code |-> 503, message |-> {}],
    [ok |-> FALSE, status |-> 0, code |-> 0, message |-> {"Quota"}],
    [ok |-> FALSE, status |-> 0, code |-> 0, message |-> {"UNAVAILABLE"}],
    [ok |-> FALSE, status |-> 500, code |-> 0, message |-> {}] }

Calls ==
  { [fn |-> "transcribeAudio", file |-> "services/geminiService.ts"],
    [fn |-> "generateAvatarResponse", file |-> "services/geminiService.ts"],
    [fn |-> "generateSpeech", file |-> "services/geminiService.ts"],
    [fn |-> "transcribeAudio", file |-> "unnamed/part_007"],
    [fn |-> "generateAvatarResponse", file |-> "unnamed/part_007"],
    [fn |-> "generateSpeech", file |-> "unnamed/part_007"],
    [fn |-> "generateElevenLabsSpeech",
     file |-> "services/elevenLabsService.ts"] }

NoCall == [fn |-> "none", file |-> "none"]

(* The retry helper that wraps the request of call c; fetch is called      *)
(* directly by generateElevenLabsSpeech.                                   *)
HelperOf(c) ==
  IF c.file = "services/geminiService.ts" THEN "retryWithBackoff"
  ELSE IF c.file = "unnamed/part_007" THEN "retryOperation"
  ELSE "fetch"

(* The default value of the parameter delay.                               *)
DefaultDelay(helper) == IF helper = "retryWithBackoff" THEN 2000 ELSE 4000

InitCall(c, n) ==
  /\ call = c
  /\ callPc = IF c = NoCall THEN "absent" ELSE "calling"
  /\ retries = n
  /\ delay = DefaultDelay(HelperOf(c))
  /\ callLog = [attempts |-> 0, waits |-> <<>>, raw |-> OkResult,
                seen |-> OkResult, given |-> n]

(* A helper that takes every error of the operation for a transient one.   *)
isRetryableAnyError(helper, e) == helper # "fetch"

(* isRetryable of retryWithBackoff and of retryOperation.                  *)
isRetryable(helper, e) ==
  IF helper = "retryWithBackoff"
  THEN \/ e.status = 503 \/ e.code = 503 \/ e.status = 429 \/ e.code = 429
       \/ e.message \cap {"503", "429", "overloaded", "quota",
                          "RESOURCE_EXHAUSTED", "UNAVAILABLE"} # {}
  ELSE IF helper = "retryOperation"
  THEN \/ e.status = 429 \/ e.code = 429 \/ e.status = 503
       \/ e.message \cap {"429", "Quota"} # {}
  ELSE FALSE

(* What the async function passed as operation yields when its request     *)
(* ends with outcome raw: transcribeAudio of part_007 catches every error  *)
(* and returns the empty string.                                           *)
operation(c, raw) ==
  IF c.fn = "transcribeAudio" /\ c.file = "unnamed/part_007" THEN OkResult
  ELSE raw

(* The delay of the next invocation, without the doubling.                 *)
nextDelayConstant(d) == d

(* `delay * 2`                                                             *)
nextDelay(d) == d * 2

(* One attempt: operation() is awaited and its request ends with raw.      *)
Attempt(raw) ==
  /\ callPc = "calling"
  /\ LET seen == operation(call, raw)
     IN /\ callLog' = [callLog EXCEPT !.attempts = @ + 1, !.raw = raw,
                                      !.seen = seen]
        /\ callPc' = IF seen.ok THEN "returned"
                     ELSE IF isRetryable(HelperOf(call), seen) /\ retries > 0
                          THEN "waiting"
                          ELSE "thrown"
  /\ UNCHANGED << call, retries, delay, notCallVars >>

(* The wait is over: the helper calls itself with retries - 1, delay * 2.  *)
WaitOver ==
  /\ callPc = "waiting"
  /\ callLog' = [callLog EXCEPT !.waits = Append(@, delay)]
  /\ retries' = retries - 1
  /\ delay' = nextDelay(delay)
  /\ callPc' = "calling"
  /\ UNCHANGED << call, notCallVars >>

NextCall ==
  \/ \E raw \in ApiErrors \cup {OkResult} : Attempt(raw)
  \/ WaitOver

(* ============================ specifications =========================== *)

(* One call of a service function, with any number of retries allowed.     *)
InitCallOnly ==
  /\ InitBatch("absent", TRUE)
  /\ InitLive("absent", FALSE)
  /\ InitChat("services/geminiService.ts", FALSE)
  /\ \E c \in Calls, n \in 0..MaxRetries : InitCall(c, n)

SpecCall == InitCallOnly /\ [][NextCall]_vars


(* The turn-based session alone.                                           *)
InitBatchOnly ==
  /\ InitCall(NoCall, 0)
  /\ InitBatch("mounted", TRUE)
  /\ InitLive("absent", FALSE)
  /\ InitChat("services/geminiService.ts", FALSE)

SpecBatch == InitBatchOnly /\ [][NextBatch]_vars

(* The turn-based session with the mute button in use.                     *)
NextBatchMute ==
  \/ NextBatch
  \/ ToggleMic

SpecBatchMute == InitBatchOnly /\ [][NextBatchMute]_vars

(* The turn-based session that is unmounted at some moment.                *)
NextBatchEnd ==
  \/ NextBatch
  \/ Cleanup

SpecBatchEnd == InitBatchOnly /\ [][NextBatchEnd]_vars

(* The turn-based session with or without a video element, until it is     *)
(* unmounted.                                                              *)
InitLipSync ==
  /\ InitCall(NoCall, 0)
  /\ \E video \in BOOLEAN : InitBatchWith("mounted", FALSE, video)
  /\ InitLive("absent", FALSE)
  /\ InitChat("services/geminiService.ts", FALSE)

NextLipSync ==
  \/ NextBatch /\ nTurns' <= MaxLipTurns
  \/ Cleanup

SpecLipSync == InitLipSync /\ [][NextLipSync]_vars

(* The streaming session alone, with and without a custom voice.           *)
InitDuplex ==
  /\ InitCall(NoCall, 0)
  /\ InitBatch("absent", TRUE)
  /\ \E custom \in BOOLEAN : InitLive("mounted", custom)
  /\ InitChat("services/geminiService.ts", FALSE)

SpecDuplex == InitDuplex /\ [][NextLive]_vars

(* The streaming session with the answer to the microphone request.        *)
NextLiveMic ==
  \/ NextLive
  \/ LiveMicResolves
  \/ LiveMicRejects
  \/ \E rms \in RmsValues : LiveFrame(rms)

SpecDuplexMic == InitDuplex /\ [][NextLiveMic]_vars

(* The streaming session with its connection, its microphone and the mute  *)
(* button only: no message of the model is delivered.                      *)
NextLiveSend ==
  \/ LiveStartSession
  \/ OnOpen
  \/ OnError
  \/ OnClose
  \/ LiveMicResolves
  \/ LiveMicRejects
  \/ toggleMic
  \/ \E rms \in RmsValues : LiveFrame(rms)

SpecDuplexSend == InitDuplex /\ [][NextLiveSend]_vars

(* The streaming session in which the handlers suspended at an             *)
(* interruption are told apart from the later ones.                        *)
InitDuplexWatch ==
  /\ InitCall(NoCall, 0)
  /\ InitBatch("absent", TRUE)
  /\ \E custom \in BOOLEAN :
       InitLiveWith("mounted", custom, [InitLiveObs EXCEPT !.watch = TRUE])
  /\ InitChat("services/geminiService.ts", FALSE)

SpecDuplexWatch == InitDuplexWatch /\ [][NextLive]_vars

(* A session of either kind: the application mounts one of the two.        *)
InitSession ==
  /\ InitCall(NoCall, 0)
  /\ \E pc \in {"mounted", "absent"} :
       /\ InitBatch(pc, TRUE)
       /\ InitLive(IF pc = "mounted" THEN "absent" ELSE "mounted", FALSE)
  /\ InitChat("services/geminiService.ts", FALSE)

NextSession ==
  \/ sessionPc # "absent" /\ NextBatch
  \/ liveConn # "absent" /\ NextLive

SpecSession == InitSession /\ [][NextSession]_vars

(* The text chat with either version of the response generator.            *)
InitChatOnly ==
  /\ InitCall(NoCall, 0)
  /\ InitBatch("absent", TRUE)
  /\ InitLive("absent", FALSE)
  /\ \E version \in ServiceVersions, voice \in BOOLEAN :
       InitChat(version, voice)

SpecChat == InitChatOnly /\ [][NextChat]_vars

(* The chat with its microphone button.                                    *)
NextChatMic ==
  \/ NextChat
  \/ startRecording
  \/ stopRecording
  \/ \E text \in UserTexts \cup { <<>> } : TranscribeResolves(text)
  \/ TranscribeRejects

SpecChatMic == InitChatOnly /\ [][NextChatMic]_vars

(* Speech synthesis in the turn-based session and in the text chat, with   *)
(* and without a premium voice in the profile.                             *)
InitVoice ==
  /\ InitCall(NoCall, 0)
  /\ InitLive("absent", FALSE)
  /\ \E premium \in BOOLEAN :
       \/ /\ InitBatch("mounted", premium)
          /\ InitChat("services/geminiService.ts", FALSE)
       \/ /\ InitBatch("absent", TRUE)
          /\ InitChat("services/geminiService.ts", premium)

NextVoice ==
  \/ sessionPc # "absent" /\ NextBatch
  \/ sessionPc = "absent" /\ NextChat

SpecVoice == InitVoice /\ [][NextVoice]_vars

(* ============================ properties =============================== *)

TurnsOf(loud) == {t \in TurnIds : turns[t].pc # "idle" /\ turns[t].loudAt = loud}
HistoryOf(t) == {i \in 1..Len(history) : history[i].turn = t}
PastWait(t) == turns[t].pc \notin {"idle", "wait"}

(* C1: after a frame above the threshold followed by silence longer than   *)
(* SILENCE_DURATION plus the confirmation delay, the silence timer has     *)
(* called processUserSpeech exactly once: never twice while the silence    *)
(* lasts, and once as soon as the confirmation delay has passed; exactly   *)
(* one turn is finalized for the utterance, and transcribeAudio is called  *)
(* exactly once for it when its blob meets MIN_BLOB_SIZE.                  *)
C1_SilenceConfirmedOnce ==
  obs.lastLoud # NoTime =>
    /\ obs.confirms <= 1
    /\ Cardinality(TurnsOf(obs.lastLoud)) = obs.confirms
    /\ (obs.lateQuiet # NoTime /\ now > obs.lateQuiet + CONFIRM_DELAY)
         => obs.confirms = 1
    /\ \A t \in TurnsOf(obs.lastLoud) :
         /\ turns[t].stt <= 1
         /\ (PastWait(t) /\ turns[t].blob >= MIN_BLOB_SIZE) => turns[t].stt = 1

C1_Witness ==
  /\ obs.lateQuiet # NoTime
  /\ now > obs.lateQuiet + CONFIRM_DELAY + SILENCE_DURATION
  /\ obs.confirms = 1
  /\ \E t \in TurnsOf(obs.lastLoud) :
       turns[t].blob >= MIN_BLOB_SIZE /\ turns[t].stt = 1

(* A frame above the threshold arrives while the user was not speaking     *)
(* and a reply is playing: SpeechStarted during playback.                  *)
BargeInStep ==
  /\ ~isUserSpeakingRef
  /\ currentSourceRef # 0
  /\ srcState[currentSourceRef] = "playing"
  /\ \E rms \in RmsValues : rms > VAD_THRESHOLD /\ OnAudioProcess(rms)

(* C2: right after a SpeechStarted during playback no segment is active    *)
(* (currentSourceRef is null, no source plays) and isTalking is false; and *)
(* the ended event of a cancelled source leaves isTalking false and the    *)
(* status other than Speaking.                                             *)
C2_BargeInCancelsPlayback ==
  [][ /\ BargeInStep => /\ currentSourceRef' = 0
                        /\ ~isTalking'
                        /\ \A s \in TurnIds : srcState'[s] # "playing"
      /\ (\E s \in TurnIds : StoppedSourceEnds(s))
           => (~isTalking' /\ status' # "Speaking...") ]_vars

C2_Witness ==
  /\ obs.bargedIn
  /\ currentSourceRef = 0
  /\ \E s \in TurnIds : srcState[s] = "ended"
  /\ ~Playing
  /\ isUserSpeakingRef

(* C5: a turn whose blob is smaller than MIN_BLOB_SIZE never reaches       *)
(* transcribeAudio, nor any later stage, and adds nothing to the history;  *)
(* the step that discards it sets isProcessing false and the status to     *)
(* Listening.                                                              *)
C5_SmallBlobNeverTranscribed ==
  /\ [](\A t \in TurnIds :
          (PastWait(t) /\ turns[t].blob < MIN_BLOB_SIZE)
            => /\ turns[t].pc = "done"
               /\ turns[t].stt = 0 /\ turns[t].gen = 0 /\ turns[t].tts = 0
               /\ HistoryOf(t) = {})
  /\ [][ \A t \in TurnIds :
           (WaitDone(t) /\ BlobSize(audioChunksRef) < MIN_BLOB_SIZE)
             => /\ ~isProcessing'
                /\ status' = "Listening..."
                /\ history' = history ]_vars

C5_Witness ==
  \E t \in TurnIds :
    /\ turns[t].pc = "done"
    /\ turns[t].blob = MIN_BLOB_SIZE - 1
    /\ turns[t].stt = 0
    /\ status = "Listening..."
    /\ ~isProcessing

(* C7: while no frame above the threshold has been seen since the session  *)
(* started or since the last finalized turn, no silence timer is pending   *)
(* and no step runs the timer-driven processUserSpeech; a session that has *)
(* only seen silence has finalized no turn and never called STT.           *)
C7_SilenceNeverConfirms ==
  /\ [](~obs.loudSinceTurn => ~TimerPending(silenceTimerDue))
  /\ [](~obs.everLoud =>
          /\ obs.totalConfirms = 0
          /\ nTurns = 0
          /\ \A t \in TurnIds : turns[t].stt = 0)
  /\ [][ ~obs.loudSinceTurn =>
           /\ obs'.totalConfirms = obs.totalConfirms
           /\ nTurns' = nTurns ]_vars

C7_Witness ==
  /\ ~obs.everLoud
  /\ sessionPc = "running"
  /\ now > 2 * SILENCE_DURATION + CONFIRM_DELAY
  /\ ~TimerPending(silenceTimerDue)
  /\ nTurns = 0

(* The transcript is empty or shorter than 2 characters once trimmed.      *)
UnderTwoChars(text) == Len(Trim(text)) < 2

(* C8: when transcribeAudio returns a transcript that is empty or under 2  *)
(* characters once trimmed, the turn ends there: no response generation,   *)
(* no synthesis, nothing added to the history; the step sets isProcessing  *)
(* false and the status to Listening.                                      *)
C8_EmptyTranscriptDiscarded ==
  /\ [](\A t \in TurnIds :
          (turns[t].pc \notin {"idle", "wait", "stt"} /\ turns[t].stt > 0
             /\ UnderTwoChars(turns[t].text))
            => /\ turns[t].gen = 0 /\ turns[t].tts = 0
               /\ HistoryOf(t) = {})
  /\ [][ \A t \in TurnIds, text \in Transcripts :
           (SttResolves(t, text) /\ UnderTwoChars(text))
             => /\ ~isProcessing'
                /\ status' = "Listening..."
                /\ history' = history
                /\ turns'[t].pc = "done" ]_vars

C8_Witness ==
  \E t \in TurnIds :
    /\ turns[t].pc = "done"
    /\ turns[t].stt = 1
    /\ turns[t].text = <<" ", "a">>
    /\ turns[t].gen = 0
    /\ status = "Listening..."
    /\ ~isProcessing

(* C9: a barge-in stops playback and sets isTalking false; the recorder    *)
(* is the same one, neither stopped nor replaced (a recording recorder     *)
(* goes on recording), the chunks collected so far are kept, and the frame *)
(* counts as speech: isUserSpeakingRef is true and lastSpeechTimeRef is    *)
(* the time of the frame.                                                  *)
C9_BargeInKeepsCapture ==
  [][ BargeInStep =>
        /\ currentSourceRef' = 0
        /\ srcState'[currentSourceRef] = "stopped"
        /\ ~isTalking'
        /\ mediaRecorderRef' = mediaRecorderRef
        /\ recState' = recState
        /\ (mediaRecorderRef # 0 /\ recState[mediaRecorderRef] = "recording")
             => recState'[mediaRecorderRef'] = "recording"
        /\ audioChunksRef' = audioChunksRef
        /\ pendingData' = pendingData
        /\ isUserSpeakingRef'
        /\ lastSpeechTimeRef' = now ]_vars

C9_Witness ==
  /\ obs.bargedIn
  /\ \E s \in TurnIds : srcState[s] = "stopped"
  /\ currentSourceRef = 0
  /\ mediaRecorderRef # 0
  /\ recState[mediaRecorderRef] = "recording"
  /\ isUserSpeakingRef
  /\ lastSpeechTimeRef = now

(* ---------------------- streaming session properties ------------------- *)

(* handleMessage runs its interrupted branch.                              *)
InterruptedStep == \E m \in Messages : m.interrupted /\ HandleMessage(m)

Stopped == {s \in SegIds : segs[s].state = "stopped"}

(* C3: a native segment B is scheduled at exactly                          *)
(* max(nextStartTimeRef, output clock) and nextStartTimeRef then equals    *)
(* B.start + B.duration; when stopAllAudio has not run since the previous  *)
(* native segment A was scheduled, B.start >= A.start + A.duration, with   *)
(* equality whenever the clock has not passed the end of A.                *)
C3_GaplessSchedule ==
  [][ \A s \in SegIds :
        DecodeResolves(s) =>
          /\ segs'[s].start = Max(nextStartTimeRef, outputClock)
          /\ nextStartTimeRef' = segs'[s].start + segs'[s].dur
          /\ (liveObs.lastEnd # NoTime /\ ~liveObs.cancelSinceLast) =>
               /\ segs'[s].start >= liveObs.lastEnd
               /\ (outputClock <= liveObs.lastEnd
                     => segs'[s].start = liveObs.lastEnd) ]_vars

C3_Witness ==
  /\ ~useCustomVoice
  /\ ~liveObs.cancelSinceLast
  /\ \E a \in audioSourcesRef, b \in audioSourcesRef :
       /\ segs[a].state = "scheduled"
       /\ segs[b].state = "scheduled"
       /\ outputClock > segs[a].start
       /\ segs[b].start = segs[a].start + segs[a].dur
       /\ nextStartTimeRef = segs[b].start + segs[b].dur
       /\ liveObs.lastEnd = nextStartTimeRef

(* C3 as stated: B.start >= A.start + A.duration for any two native        *)
(* segments scheduled one after the other, whatever happened between.      *)
C3_NoOverlapUnderInterruption ==
  [][ \A s \in SegIds :
        (DecodeResolves(s) /\ liveObs.lastEnd # NoTime)
          => segs'[s].start >= liveObs.lastEnd ]_vars

(* C4: in every reachable state of either session, cancelling raises no    *)
(* error and a second cancellation right after the first raises none and   *)
(* changes nothing: after the first the slot is null (the set is empty),   *)
(* the speaking flag is false and nextStartTimeRef is 0; this includes     *)
(* states where nothing is active and states where a held source has       *)
(* already finished.  An interrupted message handled right after another   *)
(* cancellation leaves the scheduler as it is.                             *)
C4_CancelIdempotent ==
  /\ [](LET b1 == stopAudioPlayback(currentSourceRef, srcState)
            b2 == stopAudioPlayback(b1.currentSourceRef, b1.srcState)
            d1 == stopAllAudio(audioSourcesRef, segs, outputClock)
            d2 == stopAllAudio(d1.audioSourcesRef, d1.segs, outputClock)
        IN /\ ~b1.raised /\ ~b2.raised
           /\ b1.currentSourceRef = 0 /\ ~b1.isTalking
           /\ b2 = b1
           /\ ~d1.raised /\ ~d2.raised
           /\ d1.audioSourcesRef = {} /\ ~d1.isAiSpeaking
           /\ d1.nextStartTimeRef = 0
           /\ d2 = d1)
  /\ [][ (InterruptedStep /\ liveObs.cancelsInRow > 0)
           => UNCHANGED << audioSourcesRef, segs, isAiSpeaking,
                           nextStartTimeRef >> ]_vars

C4_Witness ==
  /\ liveObs.cancelsInRow = 2
  /\ audioSourcesRef = {}
  /\ ~isAiSpeaking
  /\ nextStartTimeRef = 0
  /\ \E s \in SegIds : Finished(segs[s], outputClock)
  /\ Stopped # {}

(* C10: an interrupted message leaves the set of sources empty, every      *)
(* source that had not finished stopped, the speaking flag false, the      *)
(* transcript empty and nextStartTimeRef at 0; the next native segment is  *)
(* then started at the output clock read when it is scheduled.             *)
C10_InterruptResetsSchedule ==
  [][ /\ InterruptedStep =>
           /\ audioSourcesRef' = {}
           /\ nextStartTimeRef' = 0
           /\ ~isAiSpeaking'
           /\ currentTranscriptRef' = <<>>
           /\ \A s \in audioSourcesRef :
                segs'[s].state = "stopped" \/ Finished(segs[s], outputClock)
      /\ \A s \in SegIds :
           (DecodeResolves(s) /\ liveObs.cancelSinceLast)
             => segs'[s].start = outputClock ]_vars

C10_Witness ==
  /\ ~useCustomVoice
  /\ liveObs.cancelSinceLast
  /\ audioSourcesRef = {}
  /\ nextStartTimeRef = 0
  /\ outputClock > 0
  /\ Cardinality(Stopped) >= 2

(* C10 as stated: the interrupted branch leaves nextStartTimeRef at the    *)
(* current output clock.                                                   *)
C10_ResetToOutputClock ==
  [][ InterruptedStep =>
        /\ audioSourcesRef' = {}
        /\ nextStartTimeRef' = outputClock ]_vars

(* ---------------------------- chat properties -------------------------- *)

(* C6 as stated: every call of generateAvatarResponse carries at most      *)
(* HISTORY_WINDOW prior messages, in their original order, and none of the *)
(* usable messages newer than the oldest one carried is left out.          *)
C6_RequestWithinWindow ==
  lastRequest.made =>
    LET h == lastRequest.history
    IN /\ Len(h) <= HISTORY_WINDOW
       /\ \A i \in 1..(Len(h) - 1) : h[i].n < h[i + 1].n
       /\ \A j \in 1..Len(lastRequest.all) :
            (h # <<>> /\ lastRequest.all[j].n > h[1].n
               /\ Clean(lastRequest.all[j]))
              => \E i \in 1..Len(h) : h[i] = lastRequest.all[j]

(* ------------------- turn-based session, further properties ------------ *)

(* The turns that have passed the guard of processUserSpeech and have not  *)
(* yet returned.                                                           *)
InPipeline == {t \in TurnIds : turns[t].pc \notin {"idle", "done"}}

(* C11 as stated: at most one turn is in the pipeline at any time; a       *)
(* second processUserSpeech does not pass the isProcessing guard, stop the *)
(* recorder or call transcribeAudio while an earlier turn has not          *)
(* returned.                                                               *)
C11_OneTurnInPipeline == Cardinality(InPipeline) <= 1

PlayingSources == {s \in TurnIds : srcState[s] = "playing"}

(* C12: at most one source is started and not stopped, and it is the one   *)
(* held in currentSourceRef: playAudioBuffer stops the previous source     *)
(* before it starts the next.                                              *)
C12_OnePlaybackSegment ==
  /\ Cardinality(PlayingSources) <= 1
  /\ \A s \in PlayingSources : currentSourceRef = s

C12_Witness ==
  /\ ~obs.bargedIn
  /\ \E a \in TurnIds, b \in TurnIds :
       /\ srcState[a] = "stopped"
       /\ srcState[b] = "playing"
       /\ currentSourceRef = b

(* A stage of turn t fails in this step and the failure ends the attempt   *)
(* of the turn: the catch block of processUserSpeech or of playResponse.   *)
StageFails(t) == turns[t].err = "none" /\ turns'[t].err # "none"

(* C13 as stated: a stage failure with a 429 error shows the rate-limited  *)
(* status and starts the 3000 ms cooldown, any other failure ends the turn *)
(* at once; the turn ends with isProcessing false and status Listening,    *)
(* and a cooldown ends only when its 3000 ms are over.                     *)
C13_FailureReturnsToListening ==
  [][\A t \in TurnIds :
       /\ StageFails(t) =>
            IF turns'[t].err = "429"
            THEN /\ status' = "Rate limited. Waiting..."
                 /\ turns'[t].pc = "cooldown"
                 /\ turns'[t].due = now + RATE_LIMIT_COOLDOWN
            ELSE /\ turns'[t].pc = "done"
                 /\ ~isProcessing'
                 /\ status' = "Listening..."
       /\ (turns[t].pc = "cooldown" /\ turns'[t].pc # "cooldown") =>
            /\ now = turns[t].due
            /\ turns'[t].pc = "done"
            /\ ~isProcessing'
            /\ status' = "Listening..."]_vars

(* The calls made for one reply at position pc of its synthesis: e and g   *)
(* are the numbers of premium and default requests, voice is the provider  *)
(* whose audio was started.                                                *)
SynthesisOk(cfg, pc, e, g, voice) ==
  /\ pc = "eleven" => cfg /\ e = 1 /\ g = 0 /\ voice = "none"
  /\ pc = "gemtts" => ~cfg /\ e = 0 /\ g = 1 /\ voice = "none"
  /\ pc = "fallback" => cfg /\ e = 1 /\ g = 1 /\ voice = "none"
  /\ (pc \in {"done", "idle", "gen"} /\ e + g > 0) =>
       /\ e = IF cfg THEN 1 ELSE 0
       /\ g = IF voice = "premium" THEN 0 ELSE 1

(* The position of playResponse for turn t: generateSpeech is awaited      *)
(* after a failure of the premium path or without a premium voice.         *)
SynthesisPc(t) ==
  IF turns[t].pc = "gemtts" /\ turns[t].eleven > 0 THEN "fallback"
  ELSE turns[t].pc

RECURSIVE Pow2(_)
Pow2(k) == IF k = 0 THEN 1 ELSE 2 * Pow2(k - 1)

Helper == HelperOf(call)
Retrying == Helper \in {"retryWithBackoff", "retryOperation"}

(* C15: a call through a retry helper makes at most 1 + retries attempts;  *)
(* the wait before retry i is the default delay doubled i - 1 times; a     *)
(* result is returned by the attempt that produced it; an error is thrown  *)
(* at once when it is not retryable and after exactly 1 + retries attempts *)
(* when every attempt failed with a retryable error.                       *)
C15_BoundedRetries ==
  Retrying =>
    /\ callLog.attempts <= 1 + callLog.given
    /\ retries = callLog.given - Len(callLog.waits)
    /\ \A i \in 1..Len(callLog.waits) :
         callLog.waits[i] = DefaultDelay(Helper) * Pow2(i - 1)
    /\ Len(callLog.waits) =
         IF callPc = "calling" THEN callLog.attempts ELSE callLog.attempts - 1
    /\ callPc = "returned" => callLog.seen.ok
    /\ callPc = "waiting" => /\ isRetryable(Helper, callLog.seen)
                             /\ callLog.attempts <= callLog.given
    /\ callPc = "thrown" =>
         /\ ~callLog.seen.ok
         /\ isRetryable(Helper, callLog.seen) =>
              callLog.attempts = 1 + callLog.given

(* retryWithBackoff with the default 3 retries gave up after 4 attempts.   *)
C15_Witness ==
  /\ Helper = "retryWithBackoff"
  /\ callPc = "thrown"
  /\ callLog.given = 3
  /\ callLog.attempts = 4
  /\ callLog.waits = << 2000, 4000, 8000 >>

(* The attempt cap of the call is exhausted.                               *)
CapExhausted == callLog.attempts = 1 + callLog.given

(* `status 429 or 503`: rate limiting or temporary unavailability.         *)
Transient(e) == ~e.ok /\ e.status \in {429, 503}

(* C16 as stated: a call of the pipeline whose request fails with a        *)
(* rate-limit or temporary-unavailability error is over only when the      *)
(* attempt cap is exhausted, and then the failure is thrown to the         *)
(* pipeline.                                                               *)
C16_TransientErrorsRetried ==
  (callPc \in {"returned", "thrown"} /\ Transient(callLog.raw)) =>
    /\ CapExhausted
    /\ callPc = "thrown"

(* ------------------- turn-based session with the mute button ----------- *)

(* A captured frame is delivered to onaudioprocess in this step.           *)
FrameStep == \E rms \in RmsValues : OnAudioProcess(rms)

(* C17 as stated: while the session is muted a captured frame changes      *)
(* neither isSpeaking, nor lastSpeechTimestamp, nor the silence timer, and *)
(* stops no playback.                                                      *)
C17_MutedFramesDropped ==
  [][(~micActive /\ FrameStep) =>
       /\ isUserSpeakingRef' = isUserSpeakingRef
       /\ lastSpeechTimeRef' = lastSpeechTimeRef
       /\ silenceTimerRef' = silenceTimerRef
       /\ silenceTimerDue' = silenceTimerDue
       /\ srcState' = srcState
       /\ currentSourceRef' = currentSourceRef]_vars

(* ------------------- microphone acquisition, both sessions ------------- *)

(* C18 as stated: once getUserMedia has failed an error message is set,    *)
(* the status is a terminal error status and not Listening or Connected,   *)
(* and no recorder or stream is set up.                                    *)
C18_MicFailureIsFatal ==
  /\ sessionPc = "failed" =>
       /\ error # "null"
       /\ status = "Error"
       /\ ~streamRef
       /\ mediaRecorderRef = 0
  /\ liveMic = "denied" =>
       /\ liveError # "null"
       /\ liveStatus \in {"Error", "Disconnected"}

(* ------------------- turn-based session, teardown ---------------------- *)

(* No asynchronous step of the session is pending.                         *)
Quiescent ==
  /\ sessionPc # "awaitMic"
  /\ \A t \in TurnIds : turns[t].pc \in {"idle", "done"}
  /\ pendingData = <<>>

(* C19 as stated: once cleanup has run and every pending callback has      *)
(* completed, no microphone track is live, no recorder is recording, no    *)
(* source is playing, and no silence timer, audio callback or animation    *)
(* frame is pending.                                                       *)
C19_TeardownReleasesAll ==
  (devices.unmounted /\ Quiescent) =>
    /\ devices.track # "live"
    /\ \A r \in RecorderIds : recState[r] # "recording"
    /\ \A s \in TurnIds : srcState[s] # "playing"
    /\ silenceTimerDue = NoTime
    /\ ~devices.processor
    /\ ~devices.raf

(* ------------------- streaming session, connection --------------------- *)

Ended(conn) == conn \in {"failed", "closed"}

(* C20: the connection is opened only by the mount effect, once; after     *)
(* onerror or onclose the session neither connects nor opens again and the *)
(* status is Error or Disconnected, never Connected.                       *)
C20_NoReconnect ==
  [][/\ liveConn' = "mounted" => liveConn = "mounted"
     /\ (liveConn' = "connecting" /\ liveConn # "connecting") =>
          liveConn = "mounted"
     /\ Ended(liveConn) => Ended(liveConn')
     /\ Ended(liveConn') => liveStatus' \in {"Error", "Disconnected"}]_vars

(* The connection failed and was then closed, and a message of the model   *)
(* had been handled before.                                                *)
C20_Witness ==
  /\ liveConn = "closed"
  /\ liveError = "Connection error"
  /\ liveStatus = "Disconnected"
  /\ \E s \in SegIds : segs[s].state # "none"

(* C21 as stated: a session whose transport reported an error ends with    *)
(* the status Error, whatever callbacks follow, and the status             *)
(* Disconnected is shown only by a session that had no transport error.    *)
C21_ErrorStatusDistinct ==
  /\ (Ended(liveConn) /\ liveError = "Connection error") =>
       liveStatus = "Error"
  /\ liveStatus = "Disconnected" => liveError # "Connection error"

(* ------------------- streaming session, microphone frames -------------- *)

(* A frame above the VAD threshold is captured while a segment is          *)
(* scheduled or playing.                                                   *)
LiveSpeechStarted ==
  /\ LiveFrame(VAD_THRESHOLD + 1)
  /\ \E s \in SegIds : segs[s].state = "scheduled"

(* C22 as stated: in the streaming session a local frame above the VAD     *)
(* threshold, captured while the avatar is speaking, cancels every         *)
(* scheduled and playing segment at once, as the interrupted message does. *)
C22_LocalBargeInDuplex ==
  [][LiveSpeechStarted =>
       /\ audioSourcesRef' = {}
       /\ \A s \in SegIds : segs'[s].state # "scheduled"
       /\ ~isAiSpeaking']_vars

(* ------------------- streaming session, interruption ------------------- *)

(* C23 as stated: no source that is scheduled, playing or in the segment   *)
(* set comes from a message received before an interruption that has been  *)
(* handled.                                                                *)
C23_NoAudioFromBeforeInterrupt ==
  \A s \in SegIds :
    (segs[s].state = "scheduled" \/ s \in audioSourcesRef) => ~segs[s].old


(* C24: handling a message with interrupted = true stops every source of   *)
(* the set that has not finished, leaves the set empty, the speaking flag  *)
(* false, nextStartTimeRef at 0 and the transcript empty, and reads        *)
(* nothing else of the message: no segment starts decoding or synthesis    *)
(* and none is scheduled, whatever audio, text or turnComplete the message *)
(* carries.                                                                *)
C24_InterruptHandledAlone ==
  [][ \A m \in Messages :
        (m.interrupted /\ HandleMessage(m)) =>
          /\ audioSourcesRef' = {}
          /\ ~isAiSpeaking'
          /\ nextStartTimeRef' = 0
          /\ currentTranscriptRef' = <<>>
          /\ \A s \in SegIds :
               /\ (segs[s].state = "scheduled"
                     /\ ~Finished(segs[s], outputClock))
                    => segs'[s].state = "stopped"
               /\ segs'[s].state \in {"decoding", "synth", "scheduled"}
                    => segs'[s].state = segs[s].state ]_vars

C24_Witness ==
  /\ liveConn = "open"
  /\ ~useCustomVoice
  /\ liveObs.cancelsInRow = 1
  /\ audioSourcesRef = {}
  /\ ~isAiSpeaking
  /\ nextStartTimeRef = 0
  /\ currentTranscriptRef = <<>>
  /\ Stopped # {}
  /\ \A s \in SegIds : segs[s].state \in {"none", "stopped"}

C26_SpeakingWhilePlaying ==
  \A t \in TurnIds :
    (turns[t].pc = "done" /\ srcState[t] = "playing")
      => status = "Speaking..."

(* C27 as stated: the history of the turn-based session only grows at its  *)
(* end: every step leaves the entries it already had in place and in       *)
(* order.                                                                  *)
C27_HistoryAppendOnly ==
  [][ /\ Len(history') >= Len(history)
      /\ SubSeq(history', 1, Len(history)) = history ]_vars

(* C28 as stated: while isProcessing is true a captured frame changes      *)
(* neither isSpeaking, nor lastSpeechTimestamp, nor the silence timer, and *)
(* stops no playback, so no second finalization can be armed.              *)
C28_FramesIgnoredWhileProcessing ==
  [][(isProcessing /\ FrameStep) =>
       UNCHANGED << isUserSpeakingRef, lastSpeechTimeRef, silenceTimerRef,
                    silenceTimerDue, srcState, currentSourceRef,
                    isTalking >>]_vars

(* C29 as stated: whatever the outcome of a finalization, once the blob is *)
(* taken a new recorder is recording; and in no state is the status        *)
(* "Listening..." while the current recorder is not recording.             *)
C29_GapFreeCapture ==
  /\ [][ \A t \in TurnIds :
           WaitDone(t) => recState'[mediaRecorderRef'] = "recording" ]_vars
  /\ []((status = "Listening..." /\ mediaRecorderRef # 0)
          => recState[mediaRecorderRef] = "recording")

(* C30 as stated: in every reachable state silenceTimerRef is set only     *)
(* while its timer is armed and has not fired and isUserSpeakingRef is     *)
(* true.                                                                   *)
C30_TimerRefOnlyWhileArmed ==
  silenceTimerRef => (TimerPending(silenceTimerDue) /\ isUserSpeakingRef)

(* C31: the confirmation timer is armed only by a frame at or below the    *)
(* threshold processed while isUserSpeakingRef is true, more than          *)
(* SILENCE_DURATION after the last frame above the threshold and with no   *)
(* timer reference set, and it is due CONFIRM_DELAY later; a frame above   *)
(* the threshold leaves no timer armed; and the timer callback never runs  *)
(* less than SILENCE_DURATION + CONFIRM_DELAY after the last frame above   *)
(* the threshold.                                                          *)
C31_NoEarlyConfirmation ==
  [][ /\ (silenceTimerDue' # silenceTimerDue /\ TimerPending(silenceTimerDue'))
           => /\ \E rms \in RmsValues :
                   rms <= VAD_THRESHOLD /\ OnAudioProcess(rms)
              /\ isUserSpeakingRef
              /\ ~silenceTimerRef
              /\ ~TimerPending(silenceTimerDue)
              /\ obs.lastLoud # NoTime
              /\ now - obs.lastLoud > SILENCE_DURATION
              /\ silenceTimerDue' = now + CONFIRM_DELAY
      /\ (\E rms \in RmsValues : rms > VAD_THRESHOLD /\ OnAudioProcess(rms))
           => ~TimerPending(silenceTimerDue')
      /\ SilenceTimerFires
           => /\ obs.lastLoud # NoTime
              /\ now - obs.lastLoud >= SILENCE_DURATION + CONFIRM_DELAY ]_vars

C31_Witness ==
  /\ obs.lastLoud # NoTime
  /\ ~TimerPending(silenceTimerDue)
  /\ \E t \in TurnIds :
       /\ turns[t].pc = "wait"
       /\ turns[t].due = now + FINALIZE_WAIT
       /\ turns[t].loudAt = obs.lastLoud
       /\ now - obs.lastLoud >= SILENCE_DURATION + CONFIRM_DELAY

(* C32: every frame the audio callback of the streaming session receives   *)
(* while the microphone is not muted is sent once, after the frames sent   *)
(* before it, whatever its energy; nothing but that callback sends; and    *)
(* nothing has been sent as long as onopen has not armed the microphone.   *)
C32_EveryFrameSentInOrder ==
  /\ [][ /\ \A rms \in RmsValues :
              (micActive /\ LiveFrame(rms))
                => sentFrames' = Append(sentFrames, rms)
         /\ sentFrames' # sentFrames
              => /\ liveMic = "on"
                 /\ \E rms \in RmsValues : LiveFrame(rms) ]_vars
  /\ [](liveMic # "on" => sentFrames = <<>>)
  /\ [](liveConn \in {"mounted", "connecting"} => liveMic = "none")

C32_Witness ==
  /\ liveConn = "open"
  /\ micActive
  /\ Len(sentFrames) = 2
  /\ sentFrames[1] > VAD_THRESHOLD
  /\ sentFrames[2] <= VAD_THRESHOLD

(* The sources of the streaming session that are started and have neither  *)
(* finished nor been stopped.                                              *)
ActiveSegs ==
  {s \in SegIds : segs[s].state = "scheduled"
                    /\ ~Finished(segs[s], outputClock)}

(* C33 as stated: with a custom voice a turnComplete with a non-blank      *)
(* transcript empties the transcript, cancels the audio before it and      *)
(* starts one synthesis, whose result plays as the single active segment;  *)
(* a blank transcript starts none; and no native frame is ever decoded.    *)
C33_OneSynthesisPerTurn ==
  /\ [][ \A m \in Messages :
           (useCustomVoice /\ ~m.interrupted /\ m.turnComplete
              /\ HandleMessage(m))
             => /\ currentTranscriptRef' = <<>>
                /\ IF Trim(currentTranscriptRef \o m.text) = <<>>
                   THEN segs' = segs
                   ELSE /\ audioSourcesRef' = {}
                        /\ Cardinality({s \in SegIds :
                                          /\ segs'[s].state = "synth"
                                          /\ segs[s].state # "synth"}) = 1 ]_vars
  /\ [](useCustomVoice => Decoding(segs) = {})
  /\ [](useCustomVoice => Cardinality(ActiveSegs) <= 1)

(* C34 as stated: the ended event of a source that played to its end takes *)
(* the source out of the set and sets isAiSpeaking false only when the set *)
(* is empty afterwards: it leaves the flag as it is while another source   *)
(* is held.                                                                *)
C34_EndKeepsSpeakingFlag ==
  [][ \A s \in SegIds :
        SegmentEnds(s) =>
          /\ s \notin audioSourcesRef'
          /\ IF audioSourcesRef' = {}
             THEN ~isAiSpeaking'
             ELSE isAiSpeaking' = isAiSpeaking ]_vars

(* C35: a tick of syncLipMovement always requests the next one, with or    *)
(* without a video element and whatever the analyser reads; with a video   *)
(* element it sets isTalking to (average > LIP_SYNC_THRESHOLD) and without *)
(* one it changes nothing; and the loop, once started, is stopped by       *)
(* cleanup only.                                                           *)
C35_LipSyncLoopKeepsRunning ==
  [][ /\ \A avg \in Energies :
           SyncLipMovement(avg) =>
             /\ devices'.raf
             /\ isTalking' = IF hasVideo THEN avg > LIP_SYNC_THRESHOLD
                                         ELSE isTalking
      /\ (devices.raf /\ ~devices'.raf) => Cleanup ]_vars

C35_Witness ==
  /\ ~hasVideo
  /\ devices.raf
  /\ ~devices.unmounted
  /\ Audible
  /\ ~isTalking

(* An error that is neither a 429 nor a 503 by status or code and whose    *)
(* message holds none of the markers of rate limiting or unavailability.   *)
NotTransient(e) ==
  /\ ~e.ok
  /\ e.status \notin {429, 503}
  /\ e.code \notin {429, 503}
  /\ e.message = {}

(* C36: when the operation passed to a retry helper fails with an error    *)
(* that is not a rate-limit or unavailability error, the helper throws     *)
(* that error from the same attempt, without a wait and without using up   *)
(* a retry, and the call is over: a first such error makes the call end    *)
(* after exactly one invocation of the operation.                          *)
C36_NonRetryableThrownAtOnce ==
  /\ [][ \A raw \in ApiErrors :
           (Retrying /\ Attempt(raw) /\ NotTransient(operation(call, raw)))
             => /\ callPc' = "thrown"
                /\ callLog'.seen = raw
                /\ callLog'.attempts = callLog.attempts + 1
                /\ callLog'.waits = callLog.waits
                /\ retries' = retries ]_vars
  /\ []((Retrying /\ callPc = "thrown")
          => /\ ~ENABLED NextCall
             /\ (NotTransient(callLog.seen) /\ callLog.waits = <<>>)
                  => callLog.attempts = 1)

C36_Witness ==
  /\ Retrying
  /\ callPc = "thrown"
  /\ callLog.given = MaxRetries
  /\ retries = MaxRetries
  /\ callLog.attempts = 1
  /\ callLog.waits = <<>>
  /\ NotTransient(callLog.seen)

(* No handleMessage invocation of the streaming session is suspended at an *)
(* await.                                                                  *)
LiveQuiescent == \A s \in SegIds : segs[s].state \notin {"decoding", "synth"}

(* C37 as stated: whenever no handler is suspended, isAiSpeaking is true   *)
(* exactly when audioSourcesRef is not empty.                              *)
C37_SpeakingFlagMatchesSet ==
  LiveQuiescent => (isAiSpeaking <=> audioSourcesRef # {})

(* C38 as stated: once onclose or onerror has been delivered, no frame is  *)
(* passed to sendRealtimeInput.                                            *)
C38_NoSendAfterClose ==
  [][ Ended(liveConn) => sentFrames' = sentFrames ]_vars

(* C39 as stated: the buffer of the current turn holds only chunks of the  *)
(* current recorder: a chunk of a recorder stopped earlier is never        *)
(* appended to it.                                                         *)
C39_TurnBuffersNeverMix ==
  \A i \in 1..Len(audioChunksRef) : audioChunksRef[i].rec = mediaRecorderRef

(* C40 as stated: in the chat view at most one request is processed at a   *)
(* time: while a handleSubmit call is in flight, from typed input or from  *)
(* a finished voice recording, isProcessing is true, so that no second     *)
(* call passes the guard; and every user message is in the message list    *)
(* exactly once, followed by exactly one model reply or one error message  *)
(* (the newest one by none yet, while its call is in flight).              *)
C40_OneRequestAtATime ==
  LET InFlight == chatPc \in {"gen", "eleven", "gemtts", "fallback"}
      UserMessages == SelectSeq(messages, LAMBDA msg : msg.role = "user")
  IN  /\ InFlight => chatIsProcessing
      /\ Len(UserMessages) = nSubmits
      /\ \A i \in 1..Len(messages) :
           /\ messages[i].role = "user" =>
                IF i = Len(messages)
                THEN InFlight
                ELSE messages[i + 1].role \in {"model", "error"}
           /\ (messages[i].role \in {"model", "error"} /\ i > 1) =>
                messages[i - 1].role = "user"
=============================================================================
